---- MODULE Spec2Model ----
(***************************************************************************)
(* Model of the OCPI "push CDRs" scheduler task of ev-server               *)
(* (OCPIPushCdrsTask.processTenant) together with the storage call it      *)
(* uses (TransactionStorage.saveTransactionOcpiData) and the collaborators *)
(* it runs against: the lock manager, the transaction store, the charging  *)
(* station and tag lookups, and the roaming finalize operation.            *)
(*                                                                         *)
(* Every `await` of processTenant is one action, so that runs on several   *)
(* server instances and pushes made by other code paths interleave at the  *)
(* granularity the event loop allows.  The Logging calls are folded into   *)
(* the step that precedes them; Logging itself is assumed not to raise.    *)
(*                                                                         *)
(* The second part of the module models the flows of EmspOCPIClient        *)
(* (pullLocations, pullSessions, pullCdrs, pushTokens): the page loop, the *)
(* item workers run by Promise.map and the result counters.  The third     *)
(* part models processLocation, the reconciliation of a remote Location    *)
(* with the local Site, SiteArea and charging stations, and the fourth the *)
(* remote start and stop commands.  The parts have their own variables and *)
(* their own specification (Spec for the scheduler task, ClientSpec for    *)
(* the client flows, LocationSpec for processLocation, CommandSpec for the *)
(* commands).  TerminationSpec is the scheduler task under fairness.  The  *)
(* fifth part models TransactionStorage on documents with their whole      *)
(* ocpiData (StorageSpec, QuerySpec) and the sixth two overlapping         *)
(* pullLocations runs (OverlapSpec).                                       *)
(***************************************************************************)
EXTENDS Integers, Sequences, FiniteSets, TLC

(* ------------------------------ bounds --------------------------------- *)

\* number of transactions in the tenant's collection
NumTx == 2

\* number of processTenant invocations the schedulers start altogether
MaxRuns == 2

\* number of disturbances the environment causes altogether: a collaborator
\* call that raises, a transaction deleted by an administrator, a
\* per-transaction lock taken by another code path
MaxEvents == 1

(* ----------------------------- universe -------------------------------- *)

\* server instances whose scheduler invokes processTenant for the tenant
Tasks == {"s1", "s2"}

\* lock handle of the manual / end-of-transaction push, the other user of the
\* per-transaction lock
Ext == -1

TxIds == 1..NumTx

\* absent lock handle (LockingHelper returns null), free lock row
None == 0

\* ocpiData.cdr === null
NoCdr == 0

\* the CDR attached by the manual / end-of-transaction push
ExtCdr == -1

\* ServerAction values used by the task
OCPI_PUSH_CDRS == "OcpiPushCdrs"
OCPI_PULL_CDRS == "OcpiPullCdrs"


VARIABLES
  store,       \* transactions collection: id -> document
  tenantLock,  \* handle that holds the tenant-wide 'push-cdrs' lock, or None
  txLock,      \* id -> handle that holds the per-transaction push-cdr lock, or None
  pc,          \* task -> position inside processTenant
  cands,       \* task -> transactionsMDB, the result of the candidate query
  idx,         \* task -> position of the for..of loop in transactionsMDB
  local,       \* task -> the re-fetched `transaction` object (in memory)
  ocpiLock,    \* task -> handle returned by acquireOCPIPushCpoCdrsLock, or None
  ocpiTransactionLock, \* task -> handle returned by acquireOCPIPushCdrLock, or None
  exc,         \* task -> an exception is unwinding towards the outer catch
  started,     \* number of processTenant invocations started so far
  runs,        \* task -> sequence number of the task's current invocation
  events,      \* number of disturbances so far
  pushed,      \* id -> number of finalize calls of the task that completed
  obs          \* task -> what the current invocation has done so far

vars == <<store, tenantLock, txLock, pc, cands, idx, local, ocpiLock,
          ocpiTransactionLock, exc, started, runs, events, pushed, obs>>

\* state of the EmspOCPIClient flows (modelled further below)
VARIABLES
  flow,         \* the flow that was invoked, "none" before
  cpc,          \* control point of the invocation
  url,          \* locationsUrl / sessionsUrl / cdrsUrl
  currentSkip,  \* pushTokens: currentSkip
  tokens,       \* pushTokens: the tenant's tokens (sequence of uids)
  link,         \* server: Urls -> the next link its page carries, once asked
  fetched,      \* history: the URLs (pushTokens: the skips) requested, in order
  gets,         \* number of page GETs issued and not yet answered
  page,         \* number of items of the page being processed
  handed,       \* item of the page -> number of times handed to the worker
  inflight,     \* items whose worker has started and not completed
  result,       \* the OCPIResult being built
  applied,      \* history: number of item updates applied to the local data
  faults,       \* number of calls that raised so far
  getFailed,    \* history: a page GET of the invocation failed
  hist,         \* history: what the invocation was given and what it called
  endpoint      \* ocpiEndpoint.lastPatchJobResult as saved, "none" before

cvars == <<flow, cpc, url, currentSkip, tokens, link, fetched, gets, page,
           handed, inflight, result, applied, faults, getFailed, hist, endpoint>>

\* state of EmspOCPIClient.processLocation and of the stores it writes
\* (modelled further below)
VARIABLES
  lpc,            \* control point of pullLocations / processLocation
  sites,          \* SiteStorage: the sites of the roaming company
  siteAreas,      \* SiteAreaStorage: the site areas
  stations,       \* ChargingStationStorage: the charging stations
  existingSites,  \* sites.result of the run: the working set handed to processLocation
  location,       \* the OCPILocation being processed
  site,           \* processLocation: site
  siteArea,       \* processLocation: siteArea
  evseIdx,        \* position of the for loop in location.evses
  lfaults,        \* number of storage calls that raised so far
  calls,          \* number of processLocation calls so far
  lhist           \* history of the current processLocation call

lvars == <<lpc, sites, siteAreas, stations, existingSites, location, site,
           siteArea, evseIdx, lfaults, calls, lhist>>

\* state of EmspOCPIClient.remoteStartSession / remoteStopSession
\* (modelled further below)
VARIABLES
  rpc,            \* control point of the command
  command,        \* "start", "stop" or "none"
  chargingStation, \* remoteStartSession: the charging station handed in
  tag,            \* remoteStartSession: what TagStorage.getTag returned
  stopTransaction, \* remoteStopSession: what TransactionStorage.getTransaction returned
  posts,          \* history: number of POSTs sent for the current command
  raisedError,    \* history: what the current command raised, "none" if nothing
  commands        \* number of commands invoked so far

rvars == <<rpc, command, chargingStation, tag, stopTransaction, posts, raisedError, commands>>

\* state of TransactionStorage (modelled further below)
VARIABLES
  transactions,   \* the transactions collection: id -> document
  saveCalls,      \* the saveTransaction calls in flight: control point and id
  pushStep,       \* the push task between re-fetch and save: its copy of ocpiData
  query           \* the last getTransactions call: parameters and returned ids

svars == <<transactions, saveCalls, pushStep, query>>

\* state of two overlapping pullLocations runs (modelled further below)
VARIABLES
  pulls           \* run -> control point, working set and locals of the run

ovars == <<pulls>>

\* all variables of the module
allvars == <<vars, cvars, lvars, rvars, svars, ovars>>


(* --------------------------- data and helpers --------------------------- *)

\* a document of the transactions collection, reduced to what the task reads
Doc(exists, stop, ocpi, cdr) == [exists |-> exists, stop |-> stop, ocpi |-> ocpi, cdr |-> cdr]

\* documents the collection may hold when the scheduler starts
InitDocs == { Doc(TRUE, TRUE, TRUE, NoCdr),      \* finished roaming transaction, CDR not pushed
              Doc(TRUE, FALSE, TRUE, NoCdr),     \* roaming transaction still charging
              Doc(TRUE, TRUE, FALSE, NoCdr) }    \* finished, not a roaming transaction

\* getTransaction() returned null
NoTransaction == [id |-> 0, cdr |-> NoCdr]

\* what the current iteration of the candidate loop has done so far
\* (observation only; reset when the lock of a candidate is requested)
NoItem == [ tx      |-> 0,        \* transactionMDB._id of the iteration
            txTry   |-> 0,        \* acquireOCPIPushCdrLock calls
            txAcq   |-> 0,        \* acquires that returned a handle
            txRel   |-> 0,        \* LockingManager.release calls on that handle
            lastAcq |-> "none",   \* result of acquireOCPIPushCdrLock
            fetched |-> FALSE,    \* getTransaction was called
            cdrSeen |-> FALSE,    \* the re-fetched document had a CDR
            fin     |-> FALSE,    \* processTransactionRoaming was called
            finOk   |-> FALSE,    \* processTransactionRoaming returned
            sav     |-> FALSE,    \* saveTransactionOcpiData was called
            msg     |-> "none" ]  \* message logged for the candidate

\* what one invocation of processTenant has done so far (observation only)
NoObs == [ queried   |-> FALSE,   \* the candidate query was issued
           eligible  |-> {},      \* ids that were finished, roaming and without CDR
                                  \* in the store when the query was answered
           logs      |-> {},      \* <<level, action>> of the log entries written
           tenantRes |-> "none",  \* result of acquireOCPIPushCpoCdrsLock
           tenantRel |-> 0,       \* release calls on the tenant-wide lock
           relFailed |-> FALSE,   \* the release of the tenant-wide lock raised
           escaped   |-> FALSE,   \* an error propagated to the caller
           item      |-> NoItem ]

LogEntry(level, action) == [level |-> level, action |-> action]

\* Logging.logInfo / logError / logActionExceptionMessage
Log(o, level, action) == [o EXCEPT !.logs = @ \cup {LogEntry(level, action)}]

\* a log entry written inside the candidate loop
LogItem(o, level, action, msg) == [Log(o, level, action) EXCEPT !.item.msg = msg]

\* ascending sequence of the elements of a finite set of integers
RECURSIVE SortedSeq(_)
SortedSeq(S) == IF S = {} THEN <<>>
                ELSE LET m == CHOOSE x \in S : \A y \in S : x <= y
                     IN <<m>> \o SortedSeq(S \ {m})

\* outcomes of an awaited collaborator call
Outcomes == IF events < MaxEvents THEN {"ok", "raise"} ELSE {"ok"}

\* a call that raises is one disturbance
Cost(outcome) == IF outcome = "raise" THEN 1 ELSE 0

(* ------------------------------ lock manager ---------------------------- *)

\* LockingManager.acquire: non-blocking, grants the lock iff nobody holds it
LockGranted(holder) == holder = None

\* LockingManager.release(handle): frees the lock the handle was granted for
LockReleased(holder, handle) == IF handle # None /\ holder = handle THEN None ELSE holder

(* --------------------- guards of processTenant -------------------------- *)

\* $match of the candidate query
CandidateMatchNoStop(doc) == doc.exists /\ doc.ocpi /\ doc.cdr = NoCdr

CandidateMatch(doc) == doc.exists /\ doc.stop /\ doc.ocpi /\ doc.cdr = NoCdr

\* the guard forgotten: the body runs whether or not a handle was returned
HasTenantLockAlways(handle) == TRUE

\* if (ocpiLock)
HasTenantLock(handle) == handle # None

\* the guard forgotten: the candidate is processed without its lock
HasTransactionLockAlways(handle) == TRUE

\* if (ocpiTransactionLock)
HasTransactionLock(handle) == handle # None

\* the re-check forgotten: the candidate query is trusted
HasCdrNever(transaction) == FALSE

\* if (transaction.ocpiData?.cdr)
HasCdr(transaction) == transaction.cdr # NoCdr

\* the CDR that processTransactionRoaming attaches to transaction.ocpiData
\* (identified by the invocation that produced it)
NewCdr(p) == runs[p]

\* the lock object that LockingHelper hands to the invocation
Handle(p) == runs[p]

\* transactionMDB of the current iteration
Cur(p) == cands[p][idx[p]]

(* ------------------------------ initial state --------------------------- *)

Init ==
  /\ store \in [TxIds -> InitDocs]
  /\ tenantLock = None
  /\ txLock = [t \in TxIds |-> None]
  /\ pc = [p \in Tasks |-> "idle"]
  /\ cands = [p \in Tasks |-> <<>>]
  /\ idx = [p \in Tasks |-> 1]
  /\ local = [p \in Tasks |-> NoTransaction]
  /\ ocpiLock = [p \in Tasks |-> None]
  /\ ocpiTransactionLock = [p \in Tasks |-> None]
  /\ exc = [p \in Tasks |-> FALSE]
  /\ started = 0
  /\ events = 0
  /\ runs = [p \in Tasks |-> 0]
  /\ pushed = [t \in TxIds |-> 0]
  /\ obs = [p \in Tasks |-> NoObs]

(* ------------------------- OCPIPushCdrsTask.processTenant --------------- *)

\* The server instances run the same code on the same data and differ in
\* nothing: the one whose scheduler fires first is called s1.
FirstStarter == "s1"

\* The scheduler invokes processTenant; Utils.isTenantComponentActive decides
\* whether the run does anything at all.
processTenant(p) ==
  /\ pc[p] \in {"idle", "done"}
  /\ started < MaxRuns
  /\ (started = 0) => (p = FirstStarter)
  /\ started' = started + 1
  /\ runs' = [runs EXCEPT ![p] = started + 1]
  /\ obs' = [obs EXCEPT ![p] = NoObs]
  /\ cands' = [cands EXCEPT ![p] = <<>>]
  /\ idx' = [idx EXCEPT ![p] = 1]
  /\ local' = [local EXCEPT ![p] = NoTransaction]
  /\ ocpiLock' = [ocpiLock EXCEPT ![p] = None]
  /\ ocpiTransactionLock' = [ocpiTransactionLock EXCEPT ![p] = None]
  /\ exc' = [exc EXCEPT ![p] = FALSE]
  /\ \E active \in BOOLEAN :
        pc' = [pc EXCEPT ![p] = IF active THEN "acquireTenant" ELSE "done"]
  /\ UNCHANGED <<store, tenantLock, txLock, events, pushed>>
  /\ UNCHANGED <<cvars, lvars, rvars, svars, ovars>>

\* the release placed outside if (ocpiLock): it runs without a handle too
NoTenantLockGotoRelease == "releaseTenant"

\* if (ocpiLock) has no else branch: without a handle the run is over
NoTenantLockGoto == "done"

\* the catch of the whole run rethrowing after it logged
CatchRunRethrow(o) ==
  [o EXCEPT !.logs = @ \cup {[level |-> "error", action |-> OCPI_PULL_CDRS]}, !.escaped = TRUE]

\* catch (error) of the whole run: log the exception, return normally
CatchRun(o) == Log(o, "error", OCPI_PULL_CDRS)

\* const ocpiLock = await LockingHelper.acquireOCPIPushCpoCdrsLock(tenant.id);
\* if (ocpiLock) { try { ... } finally { release } }
acquireOCPIPushCpoCdrsLock(p) ==
  /\ pc[p] = "acquireTenant"
  /\ \E outcome \in Outcomes :
       /\ events' = events + Cost(outcome)
       /\ IF outcome = "raise"
          THEN /\ obs' = [obs EXCEPT ![p] = CatchRun([@ EXCEPT !.tenantRes = "raise"])]
               /\ pc' = [pc EXCEPT ![p] = "done"]
               /\ UNCHANGED <<tenantLock, ocpiLock>>
          ELSE LET handle == IF LockGranted(tenantLock) THEN Handle(p) ELSE None
               IN /\ tenantLock' = IF LockGranted(tenantLock) THEN Handle(p) ELSE tenantLock
                  /\ ocpiLock' = [ocpiLock EXCEPT ![p] = handle]
                  /\ obs' = [obs EXCEPT ![p].tenantRes = IF handle # None THEN "ok" ELSE "absent"]
                  /\ pc' = [pc EXCEPT ![p] = IF HasTenantLock(handle) THEN "query" ELSE NoTenantLockGoto]
  /\ UNCHANGED <<store, txLock, cands, idx, local, ocpiTransactionLock, exc, started, runs, pushed>>
  /\ UNCHANGED <<cvars, lvars, rvars, svars, ovars>>

\* transactionsMDB = await collection.aggregate([{$match}, {$project}]).toArray();
\* if (!Utils.isEmptyArray(transactionsMDB)) { logInfo; for (...) }
aggregate(p) ==
  /\ pc[p] = "query"
  /\ \E outcome \in Outcomes :
       /\ events' = events + Cost(outcome)
       /\ IF outcome = "raise"
          THEN /\ obs' = [obs EXCEPT ![p].queried = TRUE]
               /\ exc' = [exc EXCEPT ![p] = TRUE]
               /\ pc' = [pc EXCEPT ![p] = "releaseTenant"]
               /\ UNCHANGED cands
          ELSE LET found == SortedSeq({t \in TxIds : CandidateMatch(store[t])})
               IN /\ cands' = [cands EXCEPT ![p] = found]
                  /\ obs' = [obs EXCEPT ![p] =
                               LET o == [@ EXCEPT !.queried = TRUE,
                                                  !.eligible = {t \in TxIds : /\ store[t].exists
                                                                              /\ store[t].stop
                                                                              /\ store[t].ocpi
                                                                              /\ store[t].cdr = NoCdr}]
                               IN IF found = <<>> THEN o ELSE Log(o, "info", OCPI_PUSH_CDRS)]
                  /\ pc' = [pc EXCEPT ![p] = IF found = <<>> THEN "releaseTenant" ELSE "acquireTx"]
                  /\ UNCHANGED exc
  /\ idx' = [idx EXCEPT ![p] = 1]
  /\ UNCHANGED <<store, tenantLock, txLock, local, ocpiLock, ocpiTransactionLock, started, runs, pushed>>
  /\ UNCHANGED <<cvars, lvars, rvars, svars, ovars>>

\* wait-and-retry: the same candidate is requested again
NextAfterSkipRetry(i) == i

\* where the loop goes when acquireOCPIPushCdrLock returned no handle
NextAfterSkip(i) == i + 1

\* for (const transactionMDB of transactionsMDB) {
\*   const ocpiTransactionLock = await LockingHelper.acquireOCPIPushCdrLock(tenant.id, transactionMDB._id);
\*   if (ocpiTransactionLock) { try {
acquireOCPIPushCdrLock(p) ==
  /\ pc[p] = "acquireTx"
  /\ IF idx[p] > Len(cands[p])
     THEN \* the loop is over
          /\ pc' = [pc EXCEPT ![p] = "releaseTenant"]
          /\ UNCHANGED <<txLock, ocpiTransactionLock, idx, exc, events, obs>>
     ELSE LET t == Cur(p) IN
          \E outcome \in Outcomes :
            /\ events' = events + Cost(outcome)
            /\ IF outcome = "raise"
               THEN /\ obs' = [obs EXCEPT ![p].item = [NoItem EXCEPT !.tx = t, !.txTry = 1, !.lastAcq = "raise"]]
                    /\ exc' = [exc EXCEPT ![p] = TRUE]
                    /\ pc' = [pc EXCEPT ![p] = "releaseTenant"]
                    /\ UNCHANGED <<txLock, ocpiTransactionLock, idx>>
               ELSE LET handle == IF LockGranted(txLock[t]) THEN Handle(p) ELSE None
                    IN /\ txLock' = [txLock EXCEPT ![t] = IF LockGranted(@) THEN Handle(p) ELSE @]
                       /\ ocpiTransactionLock' = [ocpiTransactionLock EXCEPT ![p] = handle]
                       /\ obs' = [obs EXCEPT ![p].item =
                                    [NoItem EXCEPT !.tx = t, !.txTry = 1,
                                                   !.txAcq = IF handle # None THEN 1 ELSE 0,
                                                   !.lastAcq = IF handle # None THEN "ok" ELSE "absent"]]
                       /\ IF HasTransactionLock(handle)
                          THEN /\ pc' = [pc EXCEPT ![p] = "getTx"]
                               /\ UNCHANGED idx
                          ELSE /\ pc' = [pc EXCEPT ![p] = "acquireTx"]
                               /\ idx' = [idx EXCEPT ![p] = NextAfterSkip(@)]
                       /\ UNCHANGED exc
  /\ UNCHANGED <<store, tenantLock, cands, local, ocpiLock, started, runs, pushed>>
  /\ UNCHANGED <<cvars, lvars, rvars, svars, ovars>>

\* catch (error) of one candidate: log the failure, fall into finally
CatchTx(o) == LogItem(o, "error", OCPI_PUSH_CDRS, "failed to push")

\* const transaction = await TransactionStorage.getTransaction(...);
\* if (!transaction) { logError; continue; }
\* if (transaction.ocpiData?.cdr) { logInfo; continue; }
getTransaction(p) ==
  /\ pc[p] = "getTx"
  /\ LET t == Cur(p) IN
     \E outcome \in Outcomes :
       /\ events' = events + Cost(outcome)
       /\ IF outcome = "raise"
          THEN /\ obs' = [obs EXCEPT ![p] = CatchTx([@ EXCEPT !.item.fetched = TRUE])]
               /\ pc' = [pc EXCEPT ![p] = "releaseTx"]
               /\ UNCHANGED local
          ELSE LET transaction == IF store[t].exists THEN [id |-> t, cdr |-> store[t].cdr]
                                                      ELSE NoTransaction
                   o1 == [obs[p] EXCEPT !.item.fetched = TRUE,
                                        !.item.cdrSeen = transaction.cdr # NoCdr]
               IN /\ local' = [local EXCEPT ![p] = transaction]
                  /\ IF transaction = NoTransaction
                     THEN /\ obs' = [obs EXCEPT ![p] = LogItem(o1, "error", OCPI_PUSH_CDRS, "transaction not found")]
                          /\ pc' = [pc EXCEPT ![p] = "releaseTx"]
                     ELSE IF HasCdr(transaction)
                     THEN /\ obs' = [obs EXCEPT ![p] = LogItem(o1, "info", OCPI_PUSH_CDRS, "cdr already pushed")]
                          /\ pc' = [pc EXCEPT ![p] = "releaseTx"]
                     ELSE /\ obs' = [obs EXCEPT ![p] = o1]
                          /\ pc' = [pc EXCEPT ![p] = "getCS"]
  /\ UNCHANGED <<store, tenantLock, txLock, cands, idx, ocpiLock, ocpiTransactionLock, exc, started, runs, pushed>>
  /\ UNCHANGED <<cvars, lvars, rvars, svars, ovars>>

\* const chargingStation = await ChargingStationStorage.getChargingStation(...);
\* if (!chargingStation) { logError; continue; }
getChargingStation(p) ==
  /\ pc[p] = "getCS"
  /\ LET t == Cur(p) IN
     \E outcome \in Outcomes, found \in BOOLEAN :
       /\ events' = events + Cost(outcome)
       /\ IF outcome = "raise"
          THEN /\ obs' = [obs EXCEPT ![p] = CatchTx(@)]
               /\ pc' = [pc EXCEPT ![p] = "releaseTx"]
          ELSE IF ~found
          THEN /\ obs' = [obs EXCEPT ![p] = LogItem(@, "error", OCPI_PUSH_CDRS, "charging station not found")]
               /\ pc' = [pc EXCEPT ![p] = "releaseTx"]
          ELSE /\ pc' = [pc EXCEPT ![p] = "getTag"]
               /\ UNCHANGED obs
  /\ UNCHANGED <<store, tenantLock, txLock, cands, idx, local, ocpiLock, ocpiTransactionLock, exc, started, runs, pushed>>
  /\ UNCHANGED <<cvars, lvars, rvars, svars, ovars>>

getTagNoContinue(p) ==
  /\ pc[p] = "getTag"
  /\ LET t == Cur(p) IN
     \E outcome \in Outcomes, found \in BOOLEAN :
       /\ events' = events + Cost(outcome)
       /\ IF outcome = "raise"
          THEN /\ obs' = [obs EXCEPT ![p] = CatchTx(@)]
               /\ pc' = [pc EXCEPT ![p] = "releaseTx"]
          ELSE IF ~found
          THEN /\ obs' = [obs EXCEPT ![p] = LogItem(@, "error", OCPI_PUSH_CDRS, "tag not found")]
               /\ pc' = [pc EXCEPT ![p] = "finalize"]
          ELSE /\ pc' = [pc EXCEPT ![p] = "finalize"]
               /\ UNCHANGED obs
  /\ UNCHANGED <<store, tenantLock, txLock, cands, idx, local, ocpiLock, ocpiTransactionLock, exc, started, runs, pushed>>
  /\ UNCHANGED <<cvars, lvars, rvars, svars, ovars>>

\* const tag = await TagStorage.getTag(...);
\* if (!tag) { logError; continue; }
getTag(p) ==
  /\ pc[p] = "getTag"
  /\ LET t == Cur(p) IN
     \E outcome \in Outcomes, found \in BOOLEAN :
       /\ events' = events + Cost(outcome)
       /\ IF outcome = "raise"
          THEN /\ obs' = [obs EXCEPT ![p] = CatchTx(@)]
               /\ pc' = [pc EXCEPT ![p] = "releaseTx"]
          ELSE IF ~found
          THEN /\ obs' = [obs EXCEPT ![p] = LogItem(@, "error", OCPI_PUSH_CDRS, "tag not found")]
               /\ pc' = [pc EXCEPT ![p] = "releaseTx"]
          ELSE /\ pc' = [pc EXCEPT ![p] = "finalize"]
               /\ UNCHANGED obs
  /\ UNCHANGED <<store, tenantLock, txLock, cands, idx, local, ocpiLock, ocpiTransactionLock, exc, started, runs, pushed>>
  /\ UNCHANGED <<cvars, lvars, rvars, svars, ovars>>

\* await OCPPUtils.processTransactionRoaming(tenant, transaction, chargingStation, tag, TransactionAction.END);
\* On success the CDR has been pushed to the partner and attached to the
\* in-memory transaction.ocpiData.
processTransactionRoaming(p) ==
  /\ pc[p] = "finalize"
  /\ LET t == Cur(p) IN
     \E outcome \in Outcomes :
       /\ events' = events + Cost(outcome)
       /\ IF outcome = "raise"
          THEN /\ obs' = [obs EXCEPT ![p] = CatchTx([@ EXCEPT !.item.fin = TRUE])]
               /\ pc' = [pc EXCEPT ![p] = "releaseTx"]
               /\ UNCHANGED <<local, pushed>>
          ELSE /\ local' = [local EXCEPT ![p].cdr = NewCdr(p)]
               /\ pushed' = [pushed EXCEPT ![t] = @ + 1]
               /\ obs' = [obs EXCEPT ![p].item.fin = TRUE, ![p].item.finOk = TRUE]
               /\ pc' = [pc EXCEPT ![p] = "save"]
  /\ UNCHANGED <<store, tenantLock, txLock, cands, idx, ocpiLock, ocpiTransactionLock, exc, started, runs>>
  /\ UNCHANGED <<cvars, lvars, rvars, svars, ovars>>

\* the update run with upsert: true: a missing document is created
SetOcpiDataUpsert(docs, id, ocpiData) ==
  IF docs[id].exists
  THEN [docs EXCEPT ![id].ocpi = TRUE, ![id].cdr = ocpiData.cdr]
  ELSE [docs EXCEPT ![id] = Doc(TRUE, FALSE, TRUE, ocpiData.cdr)]

\* TransactionStorage.saveTransactionOcpiData: findOneAndUpdate({_id: id},
\* {$set: {ocpiData}}, {upsert: false}) -- the stored ocpiData is replaced by
\* the one given; a missing document is not created.
SetOcpiData(docs, id, ocpiData) ==
  IF docs[id].exists
  THEN [docs EXCEPT ![id].ocpi = TRUE, ![id].cdr = ocpiData.cdr]
  ELSE docs

\* the save placed outside the try of the candidate: an error it raises
\* unwinds to the catch of the whole run
saveTransactionOcpiDataNoCatch(p) ==
  /\ pc[p] = "save"
  /\ LET t == Cur(p) IN
     \E outcome \in Outcomes :
       /\ events' = events + Cost(outcome)
       /\ IF outcome = "raise"
          THEN /\ obs' = [obs EXCEPT ![p].item.sav = TRUE]
               /\ exc' = [exc EXCEPT ![p] = TRUE]
               /\ pc' = [pc EXCEPT ![p] = "releaseTenant"]
               /\ UNCHANGED store
          ELSE /\ store' = SetOcpiData(store, local[p].id, [cdr |-> local[p].cdr])
               /\ obs' = [obs EXCEPT ![p] = LogItem([@ EXCEPT !.item.sav = TRUE], "info", OCPI_PUSH_CDRS, "pushed successfully")]
               /\ pc' = [pc EXCEPT ![p] = "releaseTx"]
               /\ UNCHANGED exc
  /\ UNCHANGED <<tenantLock, txLock, cands, idx, local, ocpiLock, ocpiTransactionLock, started, runs, pushed>>
  /\ UNCHANGED <<cvars, lvars, rvars, svars, ovars>>

\* await TransactionStorage.saveTransactionOcpiData(tenant.id, transaction.id, transaction.ocpiData);
\* await Logging.logInfo(...)
saveTransactionOcpiData(p) ==
  /\ pc[p] = "save"
  /\ LET t == Cur(p) IN
     \E outcome \in Outcomes :
       /\ events' = events + Cost(outcome)
       /\ IF outcome = "raise"
          THEN /\ obs' = [obs EXCEPT ![p] = CatchTx([@ EXCEPT !.item.sav = TRUE])]
               /\ UNCHANGED store
          ELSE /\ store' = SetOcpiData(store, local[p].id, [cdr |-> local[p].cdr])
               /\ obs' = [obs EXCEPT ![p] = LogItem([@ EXCEPT !.item.sav = TRUE], "info", OCPI_PUSH_CDRS, "pushed successfully")]
  /\ pc' = [pc EXCEPT ![p] = "releaseTx"]
  /\ UNCHANGED <<tenantLock, txLock, cands, idx, local, ocpiLock, ocpiTransactionLock, exc, started, runs, pushed>>
  /\ UNCHANGED <<cvars, lvars, rvars, svars, ovars>>

\* the release written as the last statement of the try block instead of in
\* finally: a `continue` or a caught error leaves the loop body without it
releaseTransactionLockNoFinally(p) ==
  /\ pc[p] = "releaseTx"
  /\ LET t == Cur(p) IN
     IF obs[p].item.msg = "pushed successfully"
     THEN /\ obs' = [obs EXCEPT ![p].item.txRel = @ + 1]
          /\ \E outcome \in Outcomes, removed \in BOOLEAN :
               /\ events' = events + Cost(outcome)
               /\ IF outcome = "raise"
                  THEN /\ txLock' = [txLock EXCEPT ![t] = IF removed THEN LockReleased(@, ocpiTransactionLock[p]) ELSE @]
                       /\ exc' = [exc EXCEPT ![p] = TRUE]
                       /\ pc' = [pc EXCEPT ![p] = "releaseTenant"]
                       /\ UNCHANGED idx
                  ELSE /\ removed
                       /\ txLock' = [txLock EXCEPT ![t] = LockReleased(@, ocpiTransactionLock[p])]
                       /\ idx' = [idx EXCEPT ![p] = @ + 1]
                       /\ pc' = [pc EXCEPT ![p] = "acquireTx"]
                       /\ UNCHANGED exc
     ELSE /\ idx' = [idx EXCEPT ![p] = @ + 1]
          /\ pc' = [pc EXCEPT ![p] = "acquireTx"]
          /\ UNCHANGED <<txLock, exc, events, obs>>
  /\ ocpiTransactionLock' = [ocpiTransactionLock EXCEPT ![p] = None]
  /\ local' = [local EXCEPT ![p] = NoTransaction]
  /\ UNCHANGED <<store, tenantLock, cands, ocpiLock, started, runs, pushed>>
  /\ UNCHANGED <<cvars, lvars, rvars, svars, ovars>>

\* finally { await LockingManager.release(ocpiTransactionLock); }
\* A release that raises may or may not have removed the lock.
releaseTransactionLock(p) ==
  /\ pc[p] = "releaseTx"
  /\ LET t == Cur(p) IN
     /\ obs' = [obs EXCEPT ![p].item.txRel = @ + 1]
     /\ \E outcome \in Outcomes, removed \in BOOLEAN :
          /\ events' = events + Cost(outcome)
          /\ IF outcome = "raise"
             THEN /\ txLock' = [txLock EXCEPT ![t] = IF removed THEN LockReleased(@, ocpiTransactionLock[p]) ELSE @]
                  /\ exc' = [exc EXCEPT ![p] = TRUE]
                  /\ pc' = [pc EXCEPT ![p] = "releaseTenant"]
                  /\ UNCHANGED idx
             ELSE /\ removed
                  /\ txLock' = [txLock EXCEPT ![t] = LockReleased(@, ocpiTransactionLock[p])]
                  /\ idx' = [idx EXCEPT ![p] = @ + 1]
                  /\ pc' = [pc EXCEPT ![p] = "acquireTx"]
                  /\ UNCHANGED exc
  /\ ocpiTransactionLock' = [ocpiTransactionLock EXCEPT ![p] = None]
  /\ local' = [local EXCEPT ![p] = NoTransaction]
  /\ UNCHANGED <<store, tenantLock, cands, ocpiLock, started, runs, pushed>>
  /\ UNCHANGED <<cvars, lvars, rvars, svars, ovars>>

\* the release written as the last statement of the outer try block instead of
\* in finally: an unwinding exception reaches the catch without it
releaseTenantLockNoFinally(p) ==
  /\ pc[p] = "releaseTenant"
  /\ IF exc[p]
     THEN /\ obs' = [obs EXCEPT ![p] = CatchRun([@ EXCEPT !.item = NoItem, !.eligible = {}])]
          /\ UNCHANGED <<tenantLock, events>>
     ELSE \E outcome \in Outcomes, removed \in BOOLEAN :
            /\ events' = events + Cost(outcome)
            /\ IF outcome = "raise"
               THEN /\ tenantLock' = IF removed THEN LockReleased(tenantLock, ocpiLock[p]) ELSE tenantLock
                    /\ obs' = [obs EXCEPT ![p] = CatchRun([@ EXCEPT !.tenantRel = @ + 1, !.relFailed = TRUE, !.item = NoItem, !.eligible = {}])]
               ELSE /\ removed
                    /\ tenantLock' = LockReleased(tenantLock, ocpiLock[p])
                    /\ obs' = [obs EXCEPT ![p] = [@ EXCEPT !.tenantRel = @ + 1, !.item = NoItem, !.eligible = {}]]
  /\ ocpiLock' = [ocpiLock EXCEPT ![p] = None]
  /\ exc' = [exc EXCEPT ![p] = FALSE]
  /\ cands' = [cands EXCEPT ![p] = <<>>]
  /\ idx' = [idx EXCEPT ![p] = 1]
  /\ pc' = [pc EXCEPT ![p] = "done"]
  /\ UNCHANGED <<store, txLock, local, ocpiTransactionLock, started, runs, pushed>>
  /\ UNCHANGED <<cvars, lvars, rvars, svars, ovars>>

\* finally { await LockingManager.release(ocpiLock); } followed, when an
\* exception is unwinding, by the catch of the whole run.
releaseTenantLock(p) ==
  /\ pc[p] = "releaseTenant"
  /\ \E outcome \in Outcomes, removed \in BOOLEAN :
       /\ events' = events + Cost(outcome)
       /\ IF outcome = "raise"
          THEN /\ tenantLock' = IF removed THEN LockReleased(tenantLock, ocpiLock[p]) ELSE tenantLock
               /\ obs' = [obs EXCEPT ![p] = CatchRun([@ EXCEPT !.tenantRel = @ + 1, !.relFailed = TRUE, !.item = NoItem, !.eligible = {}])]
          ELSE /\ removed
               /\ tenantLock' = LockReleased(tenantLock, ocpiLock[p])
               /\ obs' = [obs EXCEPT ![p] = IF exc[p] THEN CatchRun([@ EXCEPT !.tenantRel = @ + 1, !.item = NoItem, !.eligible = {}])
                                                       ELSE [@ EXCEPT !.tenantRel = @ + 1, !.item = NoItem, !.eligible = {}]]
  /\ ocpiLock' = [ocpiLock EXCEPT ![p] = None]
  /\ exc' = [exc EXCEPT ![p] = FALSE]
  /\ cands' = [cands EXCEPT ![p] = <<>>]
  /\ idx' = [idx EXCEPT ![p] = 1]
  /\ pc' = [pc EXCEPT ![p] = "done"]
  /\ UNCHANGED <<store, txLock, local, ocpiTransactionLock, started, runs, pushed>>
  /\ UNCHANGED <<cvars, lvars, rvars, svars, ovars>>

(* ------------------------------ environment ----------------------------- *)

\* Another code path (manual push, end-of-transaction push) takes the
\* per-transaction lock ...
ExtAcquire(t) ==
  /\ LockGranted(txLock[t])
  /\ store[t].exists /\ store[t].stop /\ store[t].ocpi
  /\ events < MaxEvents
  /\ events' = events + 1
  /\ txLock' = [txLock EXCEPT ![t] = Ext]
  /\ UNCHANGED <<store, tenantLock, pc, cands, idx, local, ocpiLock, ocpiTransactionLock, exc, started, runs, pushed, obs>>
  /\ UNCHANGED <<cvars, lvars, rvars, svars, ovars>>

\* ... pushes the CDR of a transaction that has none ...
ExtPush(t) ==
  /\ txLock[t] = Ext
  /\ store[t].exists /\ store[t].cdr = NoCdr
  /\ store' = [store EXCEPT ![t].cdr = ExtCdr]
  /\ UNCHANGED <<tenantLock, txLock, pc, cands, idx, local, ocpiLock, ocpiTransactionLock, exc, started, runs, events, pushed, obs>>
  /\ UNCHANGED <<cvars, lvars, rvars, svars, ovars>>

\* ... and releases the lock.
ExtRelease(t) ==
  /\ txLock[t] = Ext
  /\ txLock' = [txLock EXCEPT ![t] = None]
  /\ UNCHANGED <<store, tenantLock, pc, cands, idx, local, ocpiLock, ocpiTransactionLock, exc, started, runs, events, pushed, obs>>
  /\ UNCHANGED <<cvars, lvars, rvars, svars, ovars>>

\* TransactionStorage.deleteTransactions, called by an administrator
deleteTransactions(t) ==
  /\ store[t].exists
  /\ events < MaxEvents
  /\ events' = events + 1
  /\ store' = [store EXCEPT ![t].exists = FALSE]
  /\ UNCHANGED <<tenantLock, txLock, pc, cands, idx, local, ocpiLock, ocpiTransactionLock, exc, started, runs, pushed, obs>>
  /\ UNCHANGED <<cvars, lvars, rvars, svars, ovars>>

Next ==
  \/ \E p \in Tasks : processTenant(p)
  \/ \E p \in Tasks : acquireOCPIPushCpoCdrsLock(p)
  \/ \E p \in Tasks : aggregate(p)
  \/ \E p \in Tasks : acquireOCPIPushCdrLock(p)
  \/ \E p \in Tasks : getTransaction(p)
  \/ \E p \in Tasks : getChargingStation(p)
  \/ \E p \in Tasks : getTag(p)
  \/ \E p \in Tasks : processTransactionRoaming(p)
  \/ \E p \in Tasks : saveTransactionOcpiData(p)
  \/ \E p \in Tasks : releaseTransactionLock(p)
  \/ \E p \in Tasks : releaseTenantLock(p)
  \/ \E t \in TxIds : ExtAcquire(t)
  \/ \E t \in TxIds : ExtPush(t)
  \/ \E t \in TxIds : ExtRelease(t)
  \/ \E t \in TxIds : deleteTransactions(t)

TypeOK ==
  /\ tenantLock \in (1..MaxRuns) \cup {None}
  /\ \A t \in TxIds : txLock[t] \in (1..MaxRuns) \cup {Ext, None}
  /\ \A t \in TxIds : store[t].cdr \in (1..MaxRuns) \cup {ExtCdr, NoCdr}
  /\ \A p \in Tasks : pc[p] \in {"idle", "acquireTenant", "query", "acquireTx", "getTx", "getCS",
                                  "getTag", "finalize", "save", "releaseTx", "releaseTenant", "done"}
  /\ \A p \in Tasks : idx[p] \in 1..(NumTx + 1)

(* ------------------------------ regions --------------------------------- *)

\* the task is inside try { ... } finally { release(ocpiTransactionLock) }
InTxBody(p) == pc[p] \in {"getTx", "getCS", "getTag", "finalize", "save", "releaseTx"}

\* the task is inside try { ... } finally { release(ocpiLock) }
InTenantBody(p) == pc[p] \in {"query", "acquireTx", "releaseTenant"} \/ InTxBody(p)

\* the whole-run catch has logged an exception
RunErrorLogged(p) == LogEntry("error", OCPI_PULL_CDRS) \in obs[p].logs

(* ======================================================================= *)
(* EmspOCPIClient: the pull flows (pullLocations, pullSessions, pullCdrs)  *)
(* and pushTokens.  One invocation of one flow is modelled; every `await`  *)
(* is one action.  The roaming partner's server is the environment: it     *)
(* answers each GET with a page of items and a "next" link, or the GET     *)
(* fails.  Logging.logOcpiResult is folded into the step before the return *)
(* and assumed not to raise.                                               *)
(* ======================================================================= *)

(* ------------------------------ bounds --------------------------------- *)

\* number of page URLs the partner's server knows
NumUrls == 3

\* largest number of items in one page of a pull flow
MaxItems == 3

\* number of page GETs one invocation is followed for
MaxFetch == 4

\* number of calls that raise during one invocation (GET, item worker,
\* storage call)
MaxFaults == 2

\* largest number of tokens in the tenant's collection
MaxTokens == 3

\* Constants.OCPI_MAX_PARALLEL_REQUESTS: the concurrency option handed to
\* Promise.map; the value is scaled to the sizes of the pages above
OCPI_MAX_PARALLEL_REQUESTS == 2

\* Constants.DB_RECORD_COUNT_DEFAULT: the page size of getTokens, scaled
DB_RECORD_COUNT_DEFAULT == 2

(* ----------------------------- universe -------------------------------- *)

Urls == 1..NumUrls

\* the URL the flow builds from the endpoint and the date_from/limit query
FirstUrl == 1

\* OCPIUtils.getNextUrl(response.headers.link) returned undefined/null:
\* the response has no "next" link
NoLink == 0

\* OCPIUtils.getNextUrl returned the empty string
EmptyLink == -1

\* the server has not been asked for the page of this URL yet
Unknown == -2

\* what getNextUrl can return for a response
Links == Urls \cup {NoLink, EmptyLink}

\* token uids.  A token can be returned by getTokens more than once in a
\* run (the pages are cut by skip and limit from a collection that changes
\* between two calls), so a uid may occur twice among the tokens of a run
Uids == {1, 2}

PullFlows == {"pullLocations", "pullSessions", "pullCdrs"}

(* --------------------------- data and helpers --------------------------- *)

\* const result: OCPIResult = { success: 0, failure: 0, total: 0, logs: [] }
NoResult == [success |-> 0, failure |-> 0, total |-> 0, logs |-> 0, objectIDsInFailure |-> <<>>]

\* nothing handed to the flow and nothing called yet
NoHist == [ items        |-> 0,     \* items the pages of the run held
            itemFailures |-> 0,     \* item calls that raised
            failedUids   |-> {},    \* uids of the tokens whose PUT raised
            saves        |-> 0 ]    \* calls of OCPIEndpointStorage.saveOcpiEndpoint

\* the client object before any flow is invoked
ClientIdle ==
  /\ flow = "none"
  /\ cpc = "idle"
  /\ url = NoLink
  /\ currentSkip = 0
  /\ tokens = <<>>
  /\ link = [u \in Urls |-> Unknown]
  /\ fetched = <<>>
  /\ gets = 0
  /\ page = 0
  /\ handed = <<>>
  /\ inflight = {}
  /\ result = NoResult
  /\ applied = 0
  /\ faults = 0
  /\ getFailed = FALSE
  /\ hist = NoHist
  /\ endpoint = "none"

\* a call either returns or raises; at most MaxFaults calls raise
Faulty == IF faults < MaxFaults THEN {"ok", "raise"} ELSE {"ok"}

\* the token collections of the tenant
TokenLists == UNION {[1..n -> Uids] : n \in 0..MaxTokens}

\* the items of the current page not yet handed to the worker
Waiting == {i \in 1..page : handed[i] = 0}

SetMin(S) == CHOOSE m \in S : \A x \in S : m <= x

\* smaller of two numbers
Least(a, b) == IF a <= b THEN a ELSE b

ConcurrencyUnbounded(f) == IF f = "pullLocations" THEN 1 ELSE MaxItems + DB_RECORD_COUNT_DEFAULT

\* how many item workers a flow lets run at once: pullLocations awaits
\* processLocation inside a for loop; the other flows hand the page to
\* Promise.map with { concurrency: Constants.OCPI_MAX_PARALLEL_REQUESTS }
Concurrency(f) == IF f = "pullLocations" THEN 1 ELSE OCPI_MAX_PARALLEL_REQUESTS

\* the first k elements of a set of item indices
RECURSIVE FirstOf(_, _)
FirstOf(S, k) ==
  IF k <= 0 \/ S = {} THEN {}
  ELSE {SetMin(S)} \cup FirstOf(S \ {SetMin(S)}, k - 1)

\* the sets of waiting items that can be started when `slots` workers may
\* start: the for loop takes the items in array order; Promise.map starts
\* as many workers as the concurrency allows, in an order it chooses
Starts(f, waiting, slots) ==
  IF f = "pullLocations" THEN {FirstOf(waiting, slots)}
  ELSE {S \in SUBSET waiting : Cardinality(S) = Cardinality(FirstOf(waiting, slots))}

\* the promise of Promise.map resolves when no worker is running and, the
\* waiting items being started as soon as a worker completes, no item is
\* waiting
Settled(running) == running = {}

AwaitMapNotAwaited(running) == TRUE

\* `await Promise.map(...)` / the awaits of the for loop: the flow goes on
\* to the next-link test when the mapper's promise has resolved
AwaitMap(running) == Settled(running)

WorkerGotoNoCatch(outcome, running) ==
  IF outcome = "raise" THEN "raised" ELSE IF AwaitMap(running) THEN "next" ELSE "map"

\* where the flow is after the awaited call of a worker settled: the
\* worker's try/catch keeps a failure inside the worker
WorkerGoto(outcome, running) == IF AwaitMap(running) THEN "next" ELSE "map"

StartedNoCount(f, r, S) == r

\* the first statement of the pushTokens worker is result.total++
Started(f, r, S) == IF f = "pushTokens" THEN [r EXCEPT !.total = @ + Cardinality(S)] ELSE r

\* _.uniq: the first occurrence of every element, in order
RECURSIVE Uniq(_)
Uniq(s) ==
  IF s = <<>> THEN <<>>
  ELSE LET front == Uniq(SubSeq(s, 1, Len(s) - 1))
           last  == s[Len(s)]
       IN IF \E i \in 1..Len(front) : front[i] = last THEN front ELSE Append(front, last)

(* ----------------------------- the page loop ---------------------------- *)

\* pullSessions(): builds sessionsUrl and enters the do ... while loop
pullSessions ==
  /\ cpc = "idle"
  /\ flow' = "pullSessions"
  /\ url' = FirstUrl
  /\ result' = NoResult
  /\ cpc' = "get"
  /\ UNCHANGED <<currentSkip, tokens, link, fetched, gets, page, handed, inflight, applied, faults, endpoint>>
  /\ UNCHANGED getFailed
  /\ UNCHANGED hist
  /\ UNCHANGED <<vars, lvars, rvars, svars, ovars>>

\* pullCdrs(): builds cdrsUrl and enters the do ... while loop
pullCdrs ==
  /\ cpc = "idle"
  /\ flow' = "pullCdrs"
  /\ url' = FirstUrl
  /\ result' = NoResult
  /\ cpc' = "get"
  /\ UNCHANGED <<currentSkip, tokens, link, fetched, gets, page, handed, inflight, applied, faults, endpoint>>
  /\ UNCHANGED getFailed
  /\ UNCHANGED hist
  /\ UNCHANGED <<vars, lvars, rvars, svars, ovars>>

\* pullLocations(): builds locationsUrl, then
\* const company = await this.checkAndGetCompany();
\* const sites = await SiteStorage.getSites(...);
\* Either storage call may raise, which ends the flow before the first GET.
pullLocations ==
  /\ cpc = "idle"
  /\ flow' = "pullLocations"
  /\ result' = NoResult
  /\ \E outcome \in Faulty :
       /\ faults' = faults + Cost(outcome)
       /\ IF outcome = "raise"
          THEN /\ cpc' = "raised"
               /\ UNCHANGED url
          ELSE /\ cpc' = "get"
               /\ url' = FirstUrl
  /\ UNCHANGED <<currentSkip, tokens, link, fetched, gets, page, handed, inflight, applied, endpoint>>
  /\ UNCHANGED getFailed
  /\ UNCHANGED hist
  /\ UNCHANGED <<vars, lvars, rvars, svars, ovars>>

\* const response = await this.axiosInstance.get(url, ...): the request is sent
get ==
  /\ cpc = "get"
  /\ Len(fetched) < MaxFetch
  /\ fetched' = Append(fetched, url)
  /\ gets' = gets + 1
  /\ cpc' = "response"
  /\ UNCHANGED <<flow, url, currentSkip, tokens, link, page, handed, inflight, result, applied, faults, endpoint>>
  /\ UNCHANGED getFailed
  /\ UNCHANGED hist
  /\ UNCHANGED <<vars, lvars, rvars, svars, ovars>>

responseRetry ==
  /\ cpc = "response"
  /\ gets' = gets - 1
  /\ \E outcome \in Faulty :
       /\ faults' = faults + Cost(outcome)
       /\ IF outcome = "raise"
          THEN /\ getFailed' = TRUE
               /\ cpc' = "get"
               /\ UNCHANGED <<link, page, handed, inflight, hist>>
          ELSE \E n \in 0..MaxItems, nxt \in Links :
                 /\ link[url] # Unknown => nxt = link[url]
                 /\ link' = [link EXCEPT ![url] = nxt]
                 /\ page' = n
                 /\ hist' = [hist EXCEPT !.items = @ + n]
                 /\ \E S \in Starts(flow, 1..n, Concurrency(flow)) :
                      /\ handed' = [i \in 1..n |-> IF i \in S THEN 1 ELSE 0]
                      /\ inflight' = S
                      /\ cpc' = IF AwaitMap(S) THEN "next" ELSE "map"
                 /\ UNCHANGED getFailed
  /\ UNCHANGED <<flow, url, currentSkip, tokens, fetched, result, applied, endpoint>>
  /\ UNCHANGED <<vars, lvars, rvars, svars, ovars>>

\* The GET is answered.  A failed GET rejects the await: no handler is
\* around it, so the flow raises.  Otherwise the items of response.data.data
\* are handed to the workers: if (!Utils.isEmptyArray(items)) { for ... /
\* await Promise.map(items, worker, { concurrency }) }.  The server answers
\* a URL it was asked before with the "next" link it gave then.
response ==
  /\ cpc = "response"
  /\ gets' = gets - 1
  /\ \E outcome \in Faulty :
       /\ faults' = faults + Cost(outcome)
       /\ IF outcome = "raise"
          THEN /\ getFailed' = TRUE
               /\ cpc' = "raised"
               /\ UNCHANGED <<link, page, handed, inflight, hist>>
          ELSE \E n \in 0..MaxItems, nxt \in Links :
                 /\ link[url] # Unknown => nxt = link[url]
                 /\ link' = [link EXCEPT ![url] = nxt]
                 /\ page' = n
                 /\ hist' = [hist EXCEPT !.items = @ + n]
                 /\ \E S \in Starts(flow, 1..n, Concurrency(flow)) :
                      /\ handed' = [i \in 1..n |-> IF i \in S THEN 1 ELSE 0]
                      /\ inflight' = S
                      /\ cpc' = IF AwaitMap(S) THEN "next" ELSE "map"
                 /\ UNCHANGED getFailed
  /\ UNCHANGED <<flow, url, currentSkip, tokens, fetched, result, applied, endpoint>>
  /\ UNCHANGED <<vars, lvars, rvars, svars, ovars>>

\* pushTokens(): let currentSkip = 0 and enters the do ... while loop
pushTokens ==
  /\ cpc = "idle"
  /\ flow' = "pushTokens"
  /\ \E toks \in TokenLists : tokens' = toks
  /\ currentSkip' = 0
  /\ result' = NoResult
  /\ cpc' = "getTokens"
  /\ UNCHANGED <<url, link, fetched, gets, page, handed, inflight, applied, faults, endpoint>>
  /\ UNCHANGED getFailed
  /\ UNCHANGED hist
  /\ UNCHANGED <<vars, lvars, rvars, svars, ovars>>

\* tokens = await OCPIUtilsService.getTokens(tenant, DB_RECORD_COUNT_DEFAULT, currentSkip);
\* if (!Utils.isEmptyArray(tokens.result)) { await Promise.map(tokens.result, worker, { concurrency }) }
getTokens ==
  /\ cpc = "getTokens"
  /\ fetched' = Append(fetched, currentSkip)
  /\ \E outcome \in Faulty :
       /\ faults' = faults + Cost(outcome)
       /\ IF outcome = "raise"
          THEN /\ cpc' = "raised"
               /\ UNCHANGED <<page, handed, inflight, result, hist>>
          ELSE LET n == Least(DB_RECORD_COUNT_DEFAULT, IF Len(tokens) > currentSkip THEN Len(tokens) - currentSkip ELSE 0)
               IN /\ page' = n
                  /\ hist' = [hist EXCEPT !.items = @ + n]
                  /\ \E S \in Starts(flow, 1..n, Concurrency(flow)) :
                       /\ handed' = [i \in 1..n |-> IF i \in S THEN 1 ELSE 0]
                       /\ inflight' = S
                       /\ result' = Started(flow, result, S)
                       /\ cpc' = IF AwaitMap(S) THEN "next" ELSE "map"
  /\ UNCHANGED <<flow, url, currentSkip, tokens, link, gets, applied, endpoint>>
  /\ UNCHANGED getFailed
  /\ UNCHANGED <<vars, lvars, rvars, svars, ovars>>

\* the outcome of one item, as the worker's try/catch records it:
\*   try { await <update>(item); result.success++; }
\*   catch (error) { result.failure++; [result.objectIDsInFailure.push(token.uid);] result.logs.push(...) }
Recorded(f, r, outcome, uid) ==
  IF outcome = "ok"
  THEN [r EXCEPT !.success = @ + 1]
  ELSE [r EXCEPT !.failure = @ + 1,
                 !.logs = @ + 1,
                 !.objectIDsInFailure = IF f = "pushTokens" THEN Append(@, uid) ELSE @]

\* the uid of item i of the current page (pushTokens)
UidOf(i) == IF flow = "pushTokens" THEN tokens[currentSkip + i] ELSE 0

workerDeferred ==
  /\ cpc = "map"
  /\ \E i \in inflight, outcome \in Faulty :
       /\ faults' = faults + Cost(outcome)
       /\ hist' = IF outcome = "ok" THEN hist
                  ELSE [hist EXCEPT !.itemFailures = @ + 1,
                                    !.failedUids = IF flow = "pushTokens" THEN @ \cup {UidOf(i)} ELSE @]
       /\ applied' = applied
       /\ \E S \in Starts(flow, Waiting, Concurrency(flow) - Cardinality(inflight \ {i})) :
            /\ handed' = [j \in 1..page |-> IF j \in S THEN handed[j] + 1 ELSE handed[j]]
            /\ inflight' = (inflight \ {i}) \cup S
            /\ result' = Started(flow, Recorded(flow, result, outcome, UidOf(i)), S)
            /\ cpc' = WorkerGoto(outcome, (inflight \ {i}) \cup S)
  /\ UNCHANGED <<flow, url, currentSkip, tokens, link, fetched, gets, page, endpoint>>
  /\ UNCHANGED getFailed
  /\ UNCHANGED <<vars, lvars, rvars, svars, ovars>>

\* The awaited call of one item worker settles (processLocation,
\* OCPIUtilsService.updateTransaction, OCPIUtilsService.processCdr,
\* this.pushToken).  The worker records the outcome; the for loop / Promise.map
\* then starts the next waiting item, and resolves when no item is left.
worker ==
  /\ cpc = "map"
  /\ \E i \in inflight, outcome \in Faulty :
       /\ faults' = faults + Cost(outcome)
       /\ hist' = IF outcome = "ok" THEN hist
                  ELSE [hist EXCEPT !.itemFailures = @ + 1,
                                    !.failedUids = IF flow = "pushTokens" THEN @ \cup {UidOf(i)} ELSE @]
       /\ applied' = IF outcome = "ok" THEN applied + 1 ELSE applied
       /\ \E S \in Starts(flow, Waiting, Concurrency(flow) - Cardinality(inflight \ {i})) :
            /\ handed' = [j \in 1..page |-> IF j \in S THEN handed[j] + 1 ELSE handed[j]]
            /\ inflight' = (inflight \ {i}) \cup S
            /\ result' = Started(flow, Recorded(flow, result, outcome, UidOf(i)), S)
            /\ cpc' = WorkerGoto(outcome, (inflight \ {i}) \cup S)
  /\ UNCHANGED <<flow, url, currentSkip, tokens, link, fetched, gets, page, endpoint>>
  /\ UNCHANGED getFailed
  /\ UNCHANGED <<vars, lvars, rvars, svars, ovars>>

FollowLinkNoGuard(nextUrl, current) == nextUrl # NoLink /\ nextUrl # EmptyLink

\* whether the loop goes on with the link getNextUrl returned:
\* if (nextUrl && nextUrl.length > 0 && nextUrl !== url)
FollowLink(nextUrl, current) == nextUrl # NoLink /\ nextUrl # EmptyLink /\ nextUrl # current

\* const nextUrl = OCPIUtils.getNextUrl(response.headers.link);
\* if (FollowLink) { url = nextUrl; } else { nextResult = false; }  } while (nextResult);
nextLink ==
  /\ cpc = "next"
  /\ flow \in PullFlows
  /\ IF FollowLink(link[url], url)
     THEN /\ url' = link[url]
          /\ cpc' = "get"
     ELSE /\ cpc' = "finish"
          /\ UNCHANGED url
  /\ page' = 0
  /\ handed' = <<>>
  /\ UNCHANGED <<flow, currentSkip, tokens, link, fetched, gets, inflight, result, applied, faults, endpoint>>
  /\ UNCHANGED getFailed
  /\ UNCHANGED hist
  /\ UNCHANGED <<vars, lvars, rvars, svars, ovars>>

\* the skip advanced by one token instead of by one page
nextSkipByOne ==
  /\ cpc = "next"
  /\ flow = "pushTokens"
  /\ currentSkip' = currentSkip + 1
  /\ cpc' = IF page # 0 THEN "getTokens" ELSE "finish"
  /\ page' = 0
  /\ handed' = <<>>
  /\ UNCHANGED <<flow, url, tokens, link, fetched, gets, inflight, result, applied, faults, endpoint>>
  /\ UNCHANGED getFailed
  /\ UNCHANGED hist
  /\ UNCHANGED <<vars, lvars, rvars, svars, ovars>>

\* currentSkip += Constants.DB_RECORD_COUNT_DEFAULT;
\* } while (!Utils.isEmptyArray(tokens.result));
nextSkip ==
  /\ cpc = "next"
  /\ flow = "pushTokens"
  /\ currentSkip' = currentSkip + DB_RECORD_COUNT_DEFAULT
  /\ cpc' = IF page # 0 THEN "getTokens" ELSE "finish"
  /\ page' = 0
  /\ handed' = <<>>
  /\ UNCHANGED <<flow, url, tokens, link, fetched, gets, inflight, result, applied, faults, endpoint>>
  /\ UNCHANGED getFailed
  /\ UNCHANGED hist
  /\ UNCHANGED <<vars, lvars, rvars, svars, ovars>>

\* pullSessions / pullCdrs: result.total = result.failure + result.success;
\* all pull flows: await Logging.logOcpiResult(...); return result;
\* (pullLocations leaves result.total as it is)
returnResult ==
  /\ cpc = "finish"
  /\ flow \in PullFlows
  /\ result' = IF flow = "pullLocations" THEN result
               ELSE [result EXCEPT !.total = result.failure + result.success]
  /\ cpc' = "returned"
  /\ UNCHANGED <<flow, url, currentSkip, tokens, link, fetched, gets, page, handed, inflight, applied, faults, endpoint>>
  /\ UNCHANGED getFailed
  /\ UNCHANGED hist
  /\ UNCHANGED <<vars, lvars, rvars, svars, ovars>>

tokenIDsInFailureRaw(r) == r.objectIDsInFailure

\* 'tokenIDsInFailure': _.uniq(result.objectIDsInFailure)
tokenIDsInFailure(r) == Uniq(r.objectIDsInFailure)

\* pushTokens: this.ocpiEndpoint.lastPatchJobResult = { successNbr, failureNbr,
\* totalNbr, tokenIDsInFailure: _.uniq(result.objectIDsInFailure) };
\* await OCPIEndpointStorage.saveOcpiEndpoint(...); logOcpiResult; return result;
saveOcpiEndpoint ==
  /\ cpc = "finish"
  /\ flow = "pushTokens"
  /\ hist' = [hist EXCEPT !.saves = @ + 1]
  /\ \E outcome \in Faulty :
       /\ faults' = faults + Cost(outcome)
       /\ IF outcome = "raise"
          THEN /\ cpc' = "raised"
               /\ UNCHANGED endpoint
          ELSE /\ cpc' = "returned"
               /\ endpoint' = [successNbr |-> result.success,
                               failureNbr |-> result.failure,
                               totalNbr |-> result.total,
                               tokenIDsInFailure |-> tokenIDsInFailure(result)]
  /\ UNCHANGED <<flow, url, currentSkip, tokens, link, fetched, gets, page, handed, inflight, result, applied>>
  /\ UNCHANGED getFailed
  /\ UNCHANGED <<vars, lvars, rvars, svars, ovars>>

\* The caller of the flow (the scheduler task's per-endpoint handler)
\* catches what the flow raises, logs it and goes on to the next run.
runHandler ==
  /\ cpc = "raised"
  /\ cpc' = "handled"
  /\ UNCHANGED <<flow, url, currentSkip, tokens, link, fetched, gets, page, handed, inflight, result, applied, faults, endpoint>>
  /\ UNCHANGED getFailed
  /\ UNCHANGED hist
  /\ UNCHANGED <<vars, lvars, rvars, svars, ovars>>

(* ======================================================================= *)
(* EmspOCPIClient.processLocation: the reconciliation of one remote        *)
(* Location with the local Site, SiteArea and charging stations, called    *)
(* by pullLocations for every location of every page, one after the        *)
(* other.  Runs of pullLocations do not overlap.  Every storage call is    *)
(* one action and may raise; a storage call that raises has written        *)
(* nothing.                                                                *)
(* ======================================================================= *)

(* ------------------------------ bounds --------------------------------- *)

\* largest number of EVSEs of one location
MaxEvses == 2

\* number of processLocation calls followed
MaxLocations == 2

\* number of storage calls that raise while locations are processed
MaxStorageFaults == 1

(* ----------------------------- universe -------------------------------- *)

\* ids of the remote locations
LocationIds == {1, 2}

\* site names: location.operator?.name ?? OCPIUtils.buildOperatorName(...)
SiteNames == {1, 2}

\* company.id of the company checkAndGetCompany returned (ocpiEndpoint.id)
CompanyId == 1

\* a property that is not set on the object (undefined)
Undefined == 0

\* OCPIEvseStatus.REMOVED and any other status
EvseStatuses == {"REMOVED", "AVAILABLE"}

\* an EVSE of a location: evse.uid is set or missing, evse.status.  The
\* EVSE at position i of a location that has a uid has uid i.  The status
\* of an EVSE without uid is never read.
Evses == {[hasUid |-> FALSE, status |-> "AVAILABLE"]} \cup [hasUid : {TRUE}, status : EvseStatuses]

\* the locations the partner's server can send
Locations == [id : LocationIds, name : SiteNames,
              evses : UNION {[1..n -> Evses] : n \in 0..MaxEvses}]

NoLocation == [id |-> 0, name |-> 0, evses |-> <<>>]
NoSite == [id |-> 0, name |-> 0, companyID |-> Undefined]
NoSiteArea == [id |-> 0, name |-> <<>>, siteID |-> 0, siteCompanyID |-> Undefined]

\* const locationName = site.name + Constants.OCPI_SEPARATOR + location.id
LocationName(s, loc) == <<s.name, loc.id>>

\* nothing done yet in the current processLocation call
NoLocHist == [ siteCreated |-> FALSE,   \* saveSite created a site
               areaCreated |-> FALSE,   \* saveSiteArea created a site area
               found       |-> <<>>,    \* EVSE position -> the station existed when looked up
               deletes     |-> <<>>,    \* EVSE position -> deleteChargingStation calls
               saves       |-> <<>>,    \* EVSE position -> saveChargingStation calls
               visited     |-> {},      \* EVSE positions the loop has reached
               storageFault |-> FALSE,  \* a storage call of this location raised
               outcome     |-> "none" ] \* "ok": returned, "failed": raised

\* a storage call either returns or raises
StorageOutcomes == IF lfaults < MaxStorageFaults THEN {"ok", "raise"} ELSE {"ok"}

LocationIdle ==
  /\ lpc = "idle"
  /\ sites = {}
  /\ siteAreas = {}
  /\ stations = {}
  /\ existingSites = {}
  /\ location = NoLocation
  /\ site = NoSite
  /\ siteArea = NoSiteArea
  /\ evseIdx = 0
  /\ lfaults = 0
  /\ calls = 0
  /\ lhist = NoLocHist

\* ids given by the storage to new documents
NewSiteId == Cardinality(sites) + 1
NewSiteAreaId == Cardinality(siteAreas) + 1

\* what the current processLocation call raised is caught by the for loop
\* of pullLocations (failure++, logs.push), which goes on
LocationFailed(h, storage) == [h EXCEPT !.outcome = "failed", !.storageFault = storage]


(* ------------------------ pullLocations: the run ------------------------ *)

\* const sites = await SiteStorage.getSites(tenant, { companyIDs: [company.id] }, ...):
\* the working set of a run is read once, before the first page
getSites ==
  /\ lpc = "idle"
  /\ \E outcome \in StorageOutcomes :
       /\ lfaults' = lfaults + Cost(outcome)
       /\ IF outcome = "raise"
          THEN UNCHANGED <<lpc, existingSites>>
          ELSE /\ lpc' = "loop"
               /\ existingSites' = sites
  /\ UNCHANGED <<sites, siteAreas, stations, location, site, siteArea, evseIdx, calls, lhist>>
  /\ UNCHANGED <<vars, cvars, rvars, svars, ovars>>

\* the page loop of the run is over; the working set goes with the run
endRun ==
  /\ lpc = "loop"
  /\ lpc' = "idle"
  /\ existingSites' = {}
  /\ UNCHANGED <<sites, siteAreas, stations, location, site, siteArea, evseIdx, lfaults, calls, lhist>>
  /\ UNCHANGED <<vars, cvars, rvars, svars, ovars>>

(* ---------------------------- processLocation --------------------------- *)

PushSiteForgotten(workingSet, s) == workingSet

\* existingSites.push(site)
PushSite(workingSet, s) == workingSet \cup {s}

\* the locals of processLocation go out of scope
LocalsDropped ==
  /\ site' = NoSite
  /\ siteArea' = NoSiteArea
  /\ evseIdx' = 0

\* processLocation(location, company, sites.result) is called:
\* site = existingSites.find((existingSite) => existingSite.name === siteName);
\* if (!site) { ... create ... }
processLocation ==
  /\ lpc = "loop"
  /\ calls < MaxLocations
  /\ calls' = calls + 1
  /\ \E loc \in Locations :
       /\ location' = loc
       /\ lhist' = [NoLocHist EXCEPT !.found = [i \in 1..Len(loc.evses) |-> "none"],
                                      !.deletes = [i \in 1..Len(loc.evses) |-> 0],
                                      !.saves = [i \in 1..Len(loc.evses) |-> 0]]
       /\ IF \E s \in existingSites : s.name = loc.name
          THEN /\ site' = CHOOSE s \in existingSites : s.name = loc.name
               /\ lpc' = "getSiteAreas"
          ELSE /\ site' = NoSite
               /\ lpc' = "saveSite"
  /\ UNCHANGED <<sites, siteAreas, stations, existingSites, siteArea, evseIdx, lfaults>>
  /\ UNCHANGED <<vars, cvars, rvars, svars, ovars>>

\* site = { name: siteName, companyID: company.id, ... };
\* site.id = await SiteStorage.saveSite(this.tenant, site, false);
\* existingSites.push(site);
saveSite ==
  /\ lpc = "saveSite"
  /\ \E outcome \in StorageOutcomes :
       /\ lfaults' = lfaults + Cost(outcome)
       /\ IF outcome = "raise"
          THEN /\ lhist' = LocationFailed(lhist, TRUE)
               /\ lpc' = "loop"
               /\ UNCHANGED <<sites, site, existingSites>>
          ELSE LET s == [id |-> NewSiteId, name |-> location.name, companyID |-> CompanyId]
               IN /\ sites' = sites \cup {s}
                  /\ site' = s
                  /\ existingSites' = PushSite(existingSites, s)
                  /\ lhist' = [lhist EXCEPT !.siteCreated = TRUE]
                  /\ lpc' = "getSiteAreas"
  /\ UNCHANGED <<siteAreas, stations, location, siteArea, evseIdx, calls>>
  /\ UNCHANGED <<vars, cvars, rvars, svars, ovars>>

\* const siteAreas = await SiteAreaStorage.getSiteAreas(tenant.id,
\*   { siteIDs: [site.id], name: locationName, issuer: false, withSite: true }, SINGLE_RECORD);
\* let siteArea = !isEmptyArray(siteAreas.result) ? siteAreas.result[0] : null;
\* A site area read with withSite carries its site, hence the site's company.
getSiteAreas ==
  /\ lpc = "getSiteAreas"
  /\ \E outcome \in StorageOutcomes :
       /\ lfaults' = lfaults + Cost(outcome)
       /\ IF outcome = "raise"
          THEN /\ lhist' = LocationFailed(lhist, TRUE)
               /\ lpc' = "loop"
               /\ LocalsDropped
          ELSE LET areas == {a \in siteAreas : a.siteID = site.id /\ a.name = LocationName(site, location)}
               IN /\ IF areas # {}
                     THEN LET a == CHOOSE x \in areas : TRUE
                              s == CHOOSE x \in sites : x.id = a.siteID
                          IN /\ siteArea' = [id |-> a.id, name |-> a.name, siteID |-> a.siteID,
                                             siteCompanyID |-> s.companyID]
                             /\ lpc' = "evse"
                             /\ evseIdx' = 1
                     ELSE /\ lpc' = "saveSiteArea"
                          /\ UNCHANGED <<siteArea, evseIdx>>
                  /\ UNCHANGED <<site, lhist>>
  /\ UNCHANGED <<sites, siteAreas, stations, existingSites, location, calls>>
  /\ UNCHANGED <<vars, cvars, rvars, svars, ovars>>

\* siteArea = { name: locationName, siteID: site.id, ... } as SiteArea;
\* siteArea.id = await SiteAreaStorage.saveSiteArea(tenant.id, siteArea, false);
\* The object built here has a siteID but no `site` property.
saveSiteArea ==
  /\ lpc = "saveSiteArea"
  /\ \E outcome \in StorageOutcomes :
       /\ lfaults' = lfaults + Cost(outcome)
       /\ IF outcome = "raise"
          THEN /\ lhist' = LocationFailed(lhist, TRUE)
               /\ lpc' = "loop"
               /\ LocalsDropped
               /\ UNCHANGED siteAreas
          ELSE LET a == [id |-> NewSiteAreaId, name |-> LocationName(site, location), siteID |-> site.id]
               IN /\ siteAreas' = siteAreas \cup {a}
                  /\ siteArea' = [id |-> a.id, name |-> a.name, siteID |-> a.siteID,
                                  siteCompanyID |-> Undefined]
                  /\ lhist' = [lhist EXCEPT !.areaCreated = TRUE]
                  /\ lpc' = "evse"
                  /\ evseIdx' = 1
                  /\ UNCHANGED site
  /\ UNCHANGED <<sites, stations, existingSites, location, calls>>
  /\ UNCHANGED <<vars, cvars, rvars, svars, ovars>>

\* The head of `for (const evse of location.evses)`:
\*   if (!evse.uid) { throw new BackendError(...) }
\*   if (evse.status === OCPIEvseStatus.REMOVED) { ... lookup ... }
\*   else convertEvseToChargingStation and save
\* After the last EVSE processLocation returns.
nextEvse ==
  /\ lpc = "evse"
  /\ IF evseIdx > Len(location.evses)
     THEN /\ lhist' = [lhist EXCEPT !.outcome = "ok"]
          /\ lpc' = "loop"
          /\ LocalsDropped
     ELSE LET evse == location.evses[evseIdx]
          IN IF ~evse.hasUid
             THEN /\ lhist' = LocationFailed([lhist EXCEPT !.visited = @ \cup {evseIdx}], FALSE)
                  /\ lpc' = "loop"
                  /\ LocalsDropped
             ELSE /\ lhist' = [lhist EXCEPT !.visited = @ \cup {evseIdx}]
                  /\ lpc' = IF evse.status = "REMOVED" THEN "getStation" ELSE "saveStation"
                  /\ UNCHANGED <<site, siteArea, evseIdx>>
  /\ UNCHANGED <<sites, siteAreas, stations, existingSites, location, lfaults, calls>>
  /\ UNCHANGED <<vars, cvars, rvars, svars, ovars>>

\* the stored charging station of an EVSE of a location
StationOf(locId, uid) == {st \in stations : st.locationId = locId /\ st.uid = uid}

AfterRemovedNoContinue(i) == [pc |-> "saveStation", idx |-> i]

\* `continue;` at the end of the REMOVED branch
AfterRemoved(i) == [pc |-> "evse", idx |-> i + 1]

\* const currentChargingStation = await ChargingStationStorage.getChargingStationByOcpiLocationUid(
\*   tenant.id, location.id, evse.uid, ['id']);
\* if (currentChargingStation) { delete } continue;
getChargingStationByOcpiLocationUid ==
  /\ lpc = "getStation"
  /\ \E outcome \in StorageOutcomes :
       /\ lfaults' = lfaults + Cost(outcome)
       /\ IF outcome = "raise"
          THEN /\ lhist' = LocationFailed(lhist, TRUE)
               /\ lpc' = "loop"
               /\ LocalsDropped
          ELSE LET exists == StationOf(location.id, evseIdx) # {}
               IN /\ lhist' = [lhist EXCEPT !.found[evseIdx] = IF exists THEN "yes" ELSE "no"]
                  /\ lpc' = IF exists THEN "delete" ELSE AfterRemoved(evseIdx).pc
                  /\ evseIdx' = IF exists THEN evseIdx ELSE AfterRemoved(evseIdx).idx
                  /\ UNCHANGED <<site, siteArea>>
  /\ UNCHANGED <<sites, siteAreas, stations, existingSites, location, calls>>
  /\ UNCHANGED <<vars, cvars, rvars, svars, ovars>>

\* await ChargingStationStorage.deleteChargingStation(tenant.id, currentChargingStation.id);
\* logDebug; continue;
deleteChargingStation ==
  /\ lpc = "delete"
  /\ \E outcome \in StorageOutcomes :
       /\ lfaults' = lfaults + Cost(outcome)
       /\ IF outcome = "raise"
          THEN /\ lhist' = LocationFailed([lhist EXCEPT !.deletes[evseIdx] = @ + 1], TRUE)
               /\ lpc' = "loop"
               /\ LocalsDropped
               /\ UNCHANGED stations
          ELSE /\ lhist' = [lhist EXCEPT !.deletes[evseIdx] = @ + 1]
               /\ stations' = stations \ StationOf(location.id, evseIdx)
               /\ lpc' = AfterRemoved(evseIdx).pc
               /\ evseIdx' = AfterRemoved(evseIdx).idx
               /\ UNCHANGED <<site, siteArea>>
  /\ UNCHANGED <<sites, siteAreas, existingSites, location, calls>>
  /\ UNCHANGED <<vars, cvars, rvars, svars, ovars>>

\* const chargingStation = OCPIUtilsService.convertEvseToChargingStation(evse, location);
\* chargingStation.companyID = siteArea.site?.companyID;
\* chargingStation.siteID = siteArea.siteID;
\* chargingStation.siteAreaID = siteArea.id;
\* await ChargingStationStorage.saveChargingStation(tenant.id, chargingStation);
saveChargingStation ==
  /\ lpc = "saveStation"
  /\ \E outcome \in StorageOutcomes :
       /\ lfaults' = lfaults + Cost(outcome)
       /\ IF outcome = "raise"
          THEN /\ lhist' = LocationFailed([lhist EXCEPT !.saves[evseIdx] = @ + 1], TRUE)
               /\ lpc' = "loop"
               /\ LocalsDropped
               /\ UNCHANGED stations
          ELSE LET converted == [locationId |-> location.id, uid |-> evseIdx,
                               companyID |-> siteArea.siteCompanyID,
                               siteID |-> siteArea.siteID,
                               siteAreaID |-> siteArea.id]
               IN /\ lhist' = [lhist EXCEPT !.saves[evseIdx] = @ + 1]
                  /\ stations' = (stations \ StationOf(location.id, evseIdx)) \cup {converted}
                  /\ lpc' = "saveOcpiData"
                  /\ UNCHANGED <<site, siteArea, evseIdx>>
  /\ UNCHANGED <<sites, siteAreas, existingSites, location, calls>>
  /\ UNCHANGED <<vars, cvars, rvars, svars, ovars>>

\* await ChargingStationStorage.saveChargingStationOcpiData(tenant.id, chargingStation.id,
\*   chargingStation.ocpiData); logDebug; next EVSE
saveChargingStationOcpiData ==
  /\ lpc = "saveOcpiData"
  /\ \E outcome \in StorageOutcomes :
       /\ lfaults' = lfaults + Cost(outcome)
       /\ IF outcome = "raise"
          THEN /\ lhist' = LocationFailed(lhist, TRUE)
               /\ lpc' = "loop"
               /\ LocalsDropped
          ELSE /\ evseIdx' = evseIdx + 1
               /\ lpc' = "evse"
               /\ UNCHANGED <<site, siteArea, lhist>>
  /\ UNCHANGED <<sites, siteAreas, stations, existingSites, location, calls>>
  /\ UNCHANGED <<vars, cvars, rvars, svars, ovars>>

LocationNext ==
  \/ getSites
  \/ endRun
  \/ processLocation
  \/ saveSite
  \/ getSiteAreas
  \/ saveSiteArea
  \/ nextEvse
  \/ getChargingStationByOcpiLocationUid
  \/ deleteChargingStation
  \/ saveChargingStation
  \/ saveChargingStationOcpiData

LocationTypeOK ==
  /\ lpc \in {"idle", "loop", "saveSite", "getSiteAreas", "saveSiteArea", "evse",
              "getStation", "delete", "saveStation", "saveOcpiData"}
  /\ evseIdx \in 0..(MaxEvses + 1)
  /\ lfaults \in 0..MaxStorageFaults
  /\ calls \in 0..MaxLocations
  /\ existingSites \subseteq sites
  /\ \A st \in stations : st.locationId \in LocationIds /\ st.uid \in 1..MaxEvses

(* ======================================================================= *)
(* EmspOCPIClient.remoteStartSession and remoteStopSession: the command    *)
(* is validated against the stored tag or transaction and then sent to     *)
(* the partner with one POST.  One command at a time is followed.          *)
(* ======================================================================= *)

(* ------------------------------ bounds --------------------------------- *)

\* number of commands followed
MaxCommands == 3

(* ----------------------------- universe -------------------------------- *)

\* tag.user as read with withUser: not set, a user of another
\* organization (user.issuer false), a local user (user.issuer true)
Users == {"none", "external", "local"}

\* TagStorage.getTag found nothing
NoTag == [exists |-> FALSE, issuer |-> FALSE, active |-> FALSE, user |-> "none"]

\* what TagStorage.getTag(tenant.id, tagID, { withUser: true }) can return
Tags == {NoTag} \cup [exists : {TRUE}, issuer : BOOLEAN, active : BOOLEAN, user : Users]

\* TransactionStorage.getTransaction found nothing
NoStopTransaction == [exists |-> FALSE, issuer |-> FALSE, session |-> FALSE]

\* what TransactionStorage.getTransaction(tenant.id, transactionId) can
\* return; session: transaction.ocpiData?.session is set
Transactions == {NoStopTransaction} \cup [exists : {TRUE}, issuer : BOOLEAN, session : BOOLEAN]

\* the charging station handed to remoteStartSession: its siteArea is set or not
ChargingStations == [siteArea : BOOLEAN]

NoChargingStation == [siteArea |-> FALSE]

\* a call of the client either returns or raises
CallOutcomes == {"ok", "raise"}

CommandIdle ==
  /\ rpc = "idle"
  /\ command = "none"
  /\ chargingStation = NoChargingStation
  /\ tag = NoTag
  /\ stopTransaction = NoStopTransaction
  /\ posts = 0
  /\ raisedError = "none"
  /\ commands = 0

\* no command is running
CommandOver == rpc \in {"idle", "returned", "raised"}

(* ------------------------- remoteStartSession --------------------------- *)

\* remoteStartSession(chargingStation, connectorID, tagID) is called
remoteStartSession ==
  /\ CommandOver
  /\ commands < MaxCommands
  /\ commands' = commands + 1
  /\ command' = "start"
  /\ \E cs \in ChargingStations : chargingStation' = cs
  /\ tag' = NoTag
  /\ stopTransaction' = NoStopTransaction
  /\ posts' = 0
  /\ raisedError' = "none"
  /\ rpc' = "getTag"
  /\ UNCHANGED <<vars, cvars, lvars, svars, ovars>>

TagAvailableInactive(tg) == tg.exists /\ tg.issuer

\* if (!tag || !tag.issuer || !tag.active) { throw new BackendError(...) }
TagAvailable(tg) == tg.exists /\ tg.issuer /\ tg.active

\* if (!tag.user || !tag.user.issuer) { throw new BackendError(...) }
UserAvailable(tg) == tg.user = "local"

\* const tag = await TagStorage.getTag(...); the two validations; the token
\* and the payload are built, which reads chargingStation.siteArea.name
getTagOfCommand ==
  /\ rpc = "getTag"
  /\ \E outcome \in CallOutcomes :
       IF outcome = "raise"
       THEN /\ raisedError' = "storage"
            /\ rpc' = "raised"
            /\ UNCHANGED tag
       ELSE \E tg \in Tags :
              /\ tag' = tg
              /\ IF ~TagAvailable(tg) \/ ~UserAvailable(tg)
                 THEN /\ raisedError' = "BackendError"
                      /\ rpc' = "raised"
                 ELSE IF ~chargingStation.siteArea
                 THEN /\ raisedError' = "TypeError"
                      /\ rpc' = "raised"
                 ELSE /\ raisedError' = "none"
                      /\ rpc' = "post"
  /\ UNCHANGED <<command, chargingStation, stopTransaction, posts, commands>>
  /\ UNCHANGED <<vars, cvars, lvars, svars, ovars>>

(* -------------------------- remoteStopSession --------------------------- *)

\* remoteStopSession(transactionId) is called
remoteStopSession ==
  /\ CommandOver
  /\ commands < MaxCommands
  /\ commands' = commands + 1
  /\ command' = "stop"
  /\ chargingStation' = NoChargingStation
  /\ tag' = NoTag
  /\ stopTransaction' = NoStopTransaction
  /\ posts' = 0
  /\ raisedError' = "none"
  /\ rpc' = "getTransaction"
  /\ UNCHANGED <<vars, cvars, lvars, svars, ovars>>

\* if (!transaction) throw; if (!transaction.issuer) throw;
\* if (!transaction.ocpiData?.session) throw
TransactionAvailable(tr) == tr.exists /\ tr.issuer /\ tr.session

\* const transaction = await TransactionStorage.getTransaction(...); the
\* three validations; the payload is built
getTransactionOfCommand ==
  /\ rpc = "getTransaction"
  /\ \E outcome \in CallOutcomes :
       IF outcome = "raise"
       THEN /\ raisedError' = "storage"
            /\ rpc' = "raised"
            /\ UNCHANGED stopTransaction
       ELSE \E tr \in Transactions :
              /\ stopTransaction' = tr
              /\ IF ~TransactionAvailable(tr)
                 THEN /\ raisedError' = "BackendError"
                      /\ rpc' = "raised"
                 ELSE /\ raisedError' = "none"
                      /\ rpc' = "post"
  /\ UNCHANGED <<command, chargingStation, tag, posts, commands>>
  /\ UNCHANGED <<vars, cvars, lvars, svars, ovars>>

(* ------------------------------- the POST ------------------------------- *)

\* const response = await this.axiosInstance.post(commandUrl, ...);
\* await Logging.logDebug(...); return response.data.data
post ==
  /\ rpc = "post"
  /\ posts' = posts + 1
  /\ \E outcome \in CallOutcomes :
       IF outcome = "raise"
       THEN /\ raisedError' = "http"
            /\ rpc' = "raised"
       ELSE /\ raisedError' = "none"
            /\ rpc' = "returned"
  /\ UNCHANGED <<command, chargingStation, tag, stopTransaction, commands>>
  /\ UNCHANGED <<vars, cvars, lvars, svars, ovars>>

CommandNext ==
  \/ remoteStartSession
  \/ getTagOfCommand
  \/ remoteStopSession
  \/ getTransactionOfCommand
  \/ post

CommandTypeOK ==
  /\ rpc \in {"idle", "getTag", "getTransaction", "post", "returned", "raised"}
  /\ command \in {"none", "start", "stop"}
  /\ chargingStation \in ChargingStations
  /\ tag \in Tags
  /\ stopTransaction \in Transactions
  /\ posts \in 0..1
  /\ raisedError \in {"none", "BackendError", "TypeError", "storage", "http"}
  /\ commands \in 0..MaxCommands

(* ======================================================================= *)
(* TransactionStorage: saveTransaction with findAvailableID, the save of   *)
(* the ocpiData of a transaction between the re-fetch and the save of the  *)
(* push task, and the date filters of getTransactions.  The documents of   *)
(* the collection carry here the members of ocpiData the task model leaves *)
(* out.  Every awaited database call is one action.                        *)
(* ======================================================================= *)

(* ------------------------------ bounds --------------------------------- *)

\* number of ids Utils.getRandomIntSafe() can return (scaled)
NumIds == 2

\* number of distinct dates (timestamp, last_updated, ...CheckedOn)
MaxDate == 2

(* ----------------------------- universe -------------------------------- *)

TransactionIds == 1..NumIds

Dates == 1..MaxDate

\* a date that is not set (undefined / null), or a parameter not given
NoDate == 0

\* the two saveTransaction calls in flight
Callers == {"c1", "c2"}

\* a document written by neither of the two calls
NoCaller == "none"

\* transaction.ocpiData: session and cdr are reduced to their last_updated
\* (NoDate: no session / no cdr)
NoOcpiData == [session |-> NoDate, sessionCheckedOn |-> NoDate, cdr |-> NoDate, cdrCheckedOn |-> NoDate]

\* a document of the transactions collection; owner is the call that wrote it
Stored(owner, timestamp, ocpiData) ==
  [exists |-> TRUE, owner |-> owner, timestamp |-> timestamp, ocpiData |-> ocpiData]

\* no document under the id
NoDocument == [exists |-> FALSE, owner |-> NoCaller, timestamp |-> NoDate, ocpiData |-> NoOcpiData]

\* a saveTransaction call that has not started
NoCall == [pc |-> "idle", id |-> 0]

\* the push task before its re-fetch
NoPush == [pc |-> "idle", id |-> 0, ocpiData |-> NoOcpiData]

\* no getTransactions call made yet
NoQuery == [kind |-> "none", from |-> NoDate, to |-> NoDate, result |-> {}]

\* a filter on one field: { $gte: gte, $lte: lte }, NoDate for an operator
\* that is not in the filter
DateFilter(gte, lte) == [set |-> TRUE, gte |-> gte, lte |-> lte]

\* the field is not in `filters`
NoFilter == [set |-> FALSE, gte |-> NoDate, lte |-> NoDate]

\* the storage is not in use: no collection read, no call made
StorageIdle ==
  /\ transactions = <<>>
  /\ saveCalls = <<>>
  /\ pushStep = <<>>
  /\ query = <<>>

\* documents in the collection when the calls start: finished roaming
\* transactions whose session was stored and whose CDR was not pushed
StorageDocs == {NoDocument} \cup
  {Stored(NoCaller, d, [NoOcpiData EXCEPT !.session = d]) : d \in Dates}

\* documents in the collection a query runs on
QueryDocs == {NoDocument} \cup
  {Stored(NoCaller, ts, [NoOcpiData EXCEPT !.session = s, !.cdr = c]) :
     ts \in Dates, s \in Dates, c \in Dates \cup {NoDate}}

(* ---------------- saveTransaction of a new transaction ------------------ *)

\* saveTransaction(tenantID, transactionToSave) with no transactionToSave.id:
\* if (!transactionToSave.id) { transactionToSave.id = await findAvailableID(tenantID); }
saveTransaction(c) ==
  /\ saveCalls[c].pc = "idle"
  /\ saveCalls' = [saveCalls EXCEPT ![c].pc = "findAvailableID"]
  /\ UNCHANGED <<transactions, pushStep, query>>
  /\ UNCHANGED <<vars, cvars, lvars, rvars, ovars>>

\* existingTransaction = await TransactionStorage.getTransaction(tenantID, id);
\* the id is returned when no transaction has it
FreeId(docs, id) == ~docs[id].exists

\* do { const id = Utils.getRandomIntSafe();
\*      existingTransaction = await getTransaction(tenantID, id);
\*      if (existingTransaction) { logWarning } else { return id; }
\* } while (existingTransaction);
\* The random id is any id; nothing reserves the id that is returned.
findAvailableID(c) ==
  /\ saveCalls[c].pc = "findAvailableID"
  /\ \E id \in TransactionIds :
       IF FreeId(transactions, id)
       THEN saveCalls' = [saveCalls EXCEPT ![c] = [pc |-> "findOneAndReplace", id |-> id]]
       ELSE UNCHANGED saveCalls
  /\ UNCHANGED <<transactions, pushStep, query>>
  /\ UNCHANGED <<vars, cvars, lvars, rvars, ovars>>

\* await global.database.getCollection(tenantID, 'transactions').findOneAndReplace(
\*   { '_id': Utils.convertToInt(transactionToSave.id) }, transactionMDB, { upsert: true });
\* the document under the id is created or replaced as a whole
findOneAndReplace(c) ==
  /\ saveCalls[c].pc = "findOneAndReplace"
  /\ \E ts \in Dates :
       transactions' = [transactions EXCEPT ![saveCalls[c].id] = Stored(c, ts, NoOcpiData)]
  /\ saveCalls' = [saveCalls EXCEPT ![c].pc = "saved"]
  /\ UNCHANGED <<pushStep, query>>
  /\ UNCHANGED <<vars, cvars, lvars, rvars, ovars>>

(* ------- the push task between its re-fetch and its save (56-100) ------- *)

\* the transaction is one the push task takes: a session and no CDR
AwaitsCdr(doc) ==
  doc.exists /\ doc.ocpiData.session # NoDate /\ doc.ocpiData.cdr = NoDate

\* const transaction = await TransactionStorage.getTransaction(tenant, transactionMDB._id):
\* the task holds a copy of the ocpiData as stored at that time
pushGetTransaction ==
  /\ pushStep.pc = "idle"
  /\ \E id \in TransactionIds :
       /\ AwaitsCdr(transactions[id])
       /\ pushStep' = [pc |-> "finalize", id |-> id, ocpiData |-> transactions[id].ocpiData]
  /\ UNCHANGED <<transactions, saveCalls, query>>
  /\ UNCHANGED <<vars, cvars, lvars, rvars, ovars>>

\* await OCPIFacade.processTransactionRoaming(..., TransactionAction.END):
\* the CDR is attached to the copy the task holds
pushProcessTransactionRoaming ==
  /\ pushStep.pc = "finalize"
  /\ \E d \in Dates :
       pushStep' = [pushStep EXCEPT !.pc = "save", !.ocpiData.cdr = d]
  /\ UNCHANGED <<transactions, saveCalls, query>>
  /\ UNCHANGED <<vars, cvars, lvars, rvars, ovars>>

\* findOneAndUpdate({ '_id': id }, { $set: { ocpiData } }, { upsert: false }):
\* the stored ocpiData becomes the object given, every member of it
SetOcpiDataObject(docs, id, ocpiData) ==
  IF docs[id].exists THEN [docs EXCEPT ![id].ocpiData = ocpiData] ELSE docs

\* await TransactionStorage.saveTransactionOcpiData(tenant.id, transaction.id, transaction.ocpiData);
pushSaveTransactionOcpiData ==
  /\ pushStep.pc = "save"
  /\ transactions' = SetOcpiDataObject(transactions, pushStep.id, pushStep.ocpiData)
  /\ pushStep' = [pushStep EXCEPT !.pc = "saved"]
  /\ UNCHANGED <<saveCalls, query>>
  /\ UNCHANGED <<vars, cvars, lvars, rvars, ovars>>

\* Another process (the job that checks the sessions at the partner) marks
\* the session of a transaction as checked; it takes none of the locks of
\* the push task.
saveSessionCheckedOn(id) ==
  /\ transactions[id].exists
  /\ transactions[id].ocpiData.session # NoDate
  /\ transactions[id].ocpiData.sessionCheckedOn = NoDate
  /\ \E d \in Dates :
       transactions' = [transactions EXCEPT ![id].ocpiData.sessionCheckedOn = d]
  /\ UNCHANGED <<saveCalls, pushStep, query>>
  /\ UNCHANGED <<vars, cvars, lvars, rvars, ovars>>

StorageNext ==
  \/ \E c \in Callers : saveTransaction(c)
  \/ \E c \in Callers : findAvailableID(c)
  \/ \E c \in Callers : findOneAndReplace(c)
  \/ pushGetTransaction
  \/ pushProcessTransactionRoaming
  \/ pushSaveTransactionOcpiData
  \/ \E id \in TransactionIds : saveSessionCheckedOn(id)

(* ------------------- getTransactions: the date filters ------------------ *)

\* if (params.startDateTime || params.endDateTime) {
\*   filters.timestamp = {};
\*   if (params.startDateTime) { filters.timestamp.$gte = ... }
\*   if (params.endDateTime)   { filters.timestamp.$lte = ... } }
TimestampFilter(from, to) ==
  IF from # NoDate \/ to # NoDate THEN DateFilter(from, to) ELSE NoFilter

\* if (params.ocpiSessionDateFrom || params.ocpiSessionDateTo) {
\*   if (params.ocpiSessionDateFrom) { filters['ocpiData.session.last_updated'] = { $gte: ... }; }
\*   if (params.ocpiSessionDateTo)   { filters['ocpiData.session.last_updated'] = { $lte: ... }; } }
\* (the same statements for ocpiCdrDateFrom / ocpiCdrDateTo): each
\* assignment puts a new object under the key
LastUpdatedFilter(from, to) ==
  LET afterFrom == IF from # NoDate THEN DateFilter(from, NoDate) ELSE NoFilter
  IN IF to # NoDate THEN DateFilter(NoDate, to) ELSE afterFrom

\* the $match of the aggregation on one field: a comparison operator of
\* the filter matches a value that is set and in the range
Matches(filter, value) ==
  filter.set =>
    /\ filter.gte # NoDate => (value # NoDate /\ value >= filter.gte)
    /\ filter.lte # NoDate => (value # NoDate /\ value <= filter.lte)

\* the kinds of date parameters of getTransactions
QueryKinds == {"timestamp", "ocpiSessionDate", "ocpiCdrDate"}

\* the filter getTransactions builds for a pair of date parameters
FilterOf(kind, from, to) ==
  IF kind = "timestamp" THEN TimestampFilter(from, to) ELSE LastUpdatedFilter(from, to)

\* the field of a document the filter of the kind is on
FieldOf(kind, doc) ==
  IF kind = "timestamp" THEN doc.timestamp
  ELSE IF kind = "ocpiSessionDate" THEN doc.ocpiData.session
  ELSE doc.ocpiData.cdr

\* getTransactions(tenantID, params, ...) with one pair of date parameters,
\* each of them given or not: the ids of the transactions it returns
getTransactions ==
  /\ \E kind \in QueryKinds, from \in Dates \cup {NoDate}, to \in Dates \cup {NoDate} :
       query' = [kind |-> kind, from |-> from, to |-> to,
                 result |-> {id \in TransactionIds :
                               /\ transactions[id].exists
                               /\ Matches(FilterOf(kind, from, to), FieldOf(kind, transactions[id]))}]
  /\ UNCHANGED <<transactions, saveCalls, pushStep>>
  /\ UNCHANGED <<vars, cvars, lvars, rvars, ovars>>

QueryNext == getTransactions

StorageTypeOK ==
  /\ \A id \in TransactionIds :
       /\ transactions[id].exists \in BOOLEAN
       /\ transactions[id].owner \in Callers \cup {NoCaller}
       /\ transactions[id].timestamp \in Dates \cup {NoDate}
  /\ \A c \in Callers : saveCalls[c].id \in TransactionIds \cup {0}
  /\ pushStep.pc \in {"idle", "finalize", "save", "saved"}
  /\ query.result \subseteq TransactionIds

(* ======================================================================= *)
(* Two pullLocations runs for the same endpoint whose executions overlap   *)
(* (two server instances, or a run started before the one before it has    *)
(* returned).  Each run has its own working set and locals; the runs share *)
(* SiteStorage and SiteAreaStorage.  pullLocations takes no lock.  The     *)
(* EVSE loop of processLocation is left out: it writes neither store.      *)
(* ======================================================================= *)

\* the two runs
PullRuns == {1, 2}

\* a run that has not started
NoPull == [pc |-> "idle", existingSites |-> {}, location |-> NoLocation, site |-> NoSite, calls |-> 0]

\* no overlapping runs
OverlapIdle == pulls = <<>>

\* the locations of the pages, without their EVSEs
BareLocations == {loc \in Locations : loc.evses = <<>>}

\* const sites = await SiteStorage.getSites(tenant, { companyIDs: [company.id] }, ...)
getSitesOfRun(r) ==
  /\ pulls[r].pc = "idle"
  /\ pulls[r].calls = 0
  /\ pulls' = [pulls EXCEPT ![r].pc = "loop", ![r].existingSites = sites]
  /\ UNCHANGED lvars
  /\ UNCHANGED <<vars, cvars, rvars, svars>>

\* processLocation(location, company, sites.result) is called:
\* site = existingSites.find((existingSite) => existingSite.name === siteName)
processLocationOfRun(r) ==
  /\ pulls[r].pc = "loop"
  /\ pulls[r].calls < MaxLocations
  /\ \E loc \in BareLocations :
       pulls' = [pulls EXCEPT
         ![r].calls = @ + 1,
         ![r].location = loc,
         ![r].site = IF \E s \in pulls[r].existingSites : s.name = loc.name
                     THEN CHOOSE s \in pulls[r].existingSites : s.name = loc.name
                     ELSE NoSite,
         ![r].pc = IF \E s \in pulls[r].existingSites : s.name = loc.name
                   THEN "getSiteAreas" ELSE "saveSite"]
  /\ UNCHANGED lvars
  /\ UNCHANGED <<vars, cvars, rvars, svars>>

\* site.id = await SiteStorage.saveSite(this.tenant, site, false);
\* existingSites.push(site);
saveSiteOfRun(r) ==
  /\ pulls[r].pc = "saveSite"
  /\ LET s == [id |-> NewSiteId, name |-> pulls[r].location.name, companyID |-> CompanyId]
     IN /\ sites' = sites \cup {s}
        /\ pulls' = [pulls EXCEPT ![r].site = s,
                                  ![r].existingSites = PushSite(@, s),
                                  ![r].pc = "getSiteAreas"]
  /\ UNCHANGED <<lpc, siteAreas, stations, existingSites, location, site, siteArea, evseIdx, lfaults, calls, lhist>>
  /\ UNCHANGED <<vars, cvars, rvars, svars>>

\* const siteAreas = await SiteAreaStorage.getSiteAreas(tenant.id,
\*   { siteIDs: [site.id], name: locationName, ... }, SINGLE_RECORD);
\* a site area that is found is used, the call goes on to the EVSEs
getSiteAreasOfRun(r) ==
  /\ pulls[r].pc = "getSiteAreas"
  /\ LET areas == {a \in siteAreas : /\ a.siteID = pulls[r].site.id
                                     /\ a.name = LocationName(pulls[r].site, pulls[r].location)}
     IN pulls' = [pulls EXCEPT ![r].pc = IF areas # {} THEN "loop" ELSE "saveSiteArea"]
  /\ UNCHANGED lvars
  /\ UNCHANGED <<vars, cvars, rvars, svars>>

\* siteArea.id = await SiteAreaStorage.saveSiteArea(tenant.id, siteArea, false);
saveSiteAreaOfRun(r) ==
  /\ pulls[r].pc = "saveSiteArea"
  /\ LET a == [id |-> NewSiteAreaId,
               name |-> LocationName(pulls[r].site, pulls[r].location),
               siteID |-> pulls[r].site.id]
     IN siteAreas' = siteAreas \cup {a}
  /\ pulls' = [pulls EXCEPT ![r].pc = "loop"]
  /\ UNCHANGED <<lpc, sites, stations, existingSites, location, site, siteArea, evseIdx, lfaults, calls, lhist>>
  /\ UNCHANGED <<vars, cvars, rvars, svars>>

\* the page loop of the run is over
endRunOfRun(r) ==
  /\ pulls[r].pc = "loop"
  /\ pulls[r].calls > 0
  /\ pulls' = [pulls EXCEPT ![r].pc = "idle", ![r].existingSites = {},
                            ![r].location = NoLocation, ![r].site = NoSite]
  /\ UNCHANGED lvars
  /\ UNCHANGED <<vars, cvars, rvars, svars>>

OverlapNext ==
  \/ \E r \in PullRuns : getSitesOfRun(r)
  \/ \E r \in PullRuns : processLocationOfRun(r)
  \/ \E r \in PullRuns : saveSiteOfRun(r)
  \/ \E r \in PullRuns : getSiteAreasOfRun(r)
  \/ \E r \in PullRuns : saveSiteAreaOfRun(r)
  \/ \E r \in PullRuns : endRunOfRun(r)

(* ---------------------------- specifications --------------------------- *)

\* the scheduler task; no client flow is invoked
TaskInit ==
  /\ Init
  /\ ClientIdle
  /\ LocationIdle
  /\ CommandIdle
  /\ StorageIdle
  /\ OverlapIdle

Spec == TaskInit /\ [][Next]_allvars

\* one step of the run of task p, from its first await to its return
RunStep(p) ==
  \/ acquireOCPIPushCpoCdrsLock(p)
  \/ aggregate(p)
  \/ acquireOCPIPushCdrLock(p)
  \/ getTransaction(p)
  \/ getChargingStation(p)
  \/ getTag(p)
  \/ processTransactionRoaming(p)
  \/ saveTransactionOcpiData(p)
  \/ releaseTransactionLock(p)
  \/ releaseTenantLock(p)

\* the runs of the task alone: no other process takes a lock, pushes a CDR
\* or deletes a transaction
TaskNext ==
  \/ \E p \in Tasks : processTenant(p)
  \/ \E p \in Tasks : acquireOCPIPushCpoCdrsLock(p)
  \/ \E p \in Tasks : aggregate(p)
  \/ \E p \in Tasks : acquireOCPIPushCdrLock(p)
  \/ \E p \in Tasks : getTransaction(p)
  \/ \E p \in Tasks : getChargingStation(p)
  \/ \E p \in Tasks : getTag(p)
  \/ \E p \in Tasks : processTransactionRoaming(p)
  \/ \E p \in Tasks : saveTransactionOcpiData(p)
  \/ \E p \in Tasks : releaseTransactionLock(p)
  \/ \E p \in Tasks : releaseTenantLock(p)

\* the collection at the start: transactions the query matches and
\* transactions it does not match (still charging)
TerminationInit ==
  /\ TaskInit
  /\ store \in [TxIds -> {Doc(TRUE, TRUE, TRUE, NoCdr), Doc(TRUE, FALSE, TRUE, NoCdr)}]

\* every awaited call of a run returns (with a value or an error): a run
\* that can take a step eventually takes it
TerminationSpec ==
  TerminationInit /\ [][TaskNext]_allvars /\ \A p \in Tasks : WF_allvars(RunStep(p))

\* one invocation of a client flow; the scheduler task does not run
ClientInit ==
  /\ Init
  /\ store = [t \in TxIds |-> Doc(TRUE, TRUE, TRUE, NoCdr)]
  /\ ClientIdle
  /\ LocationIdle
  /\ CommandIdle
  /\ StorageIdle
  /\ OverlapIdle

ClientNext ==
  \/ pullLocations
  \/ pullSessions
  \/ pullCdrs
  \/ pushTokens
  \/ get
  \/ response
  \/ getTokens
  \/ worker
  \/ nextLink
  \/ nextSkip
  \/ returnResult
  \/ saveOcpiEndpoint
  \/ runHandler

ClientSpec == ClientInit /\ [][ClientNext]_allvars

ClientTypeOK ==
  /\ flow \in PullFlows \cup {"pushTokens", "none"}
  /\ cpc \in {"idle", "get", "response", "getTokens", "map", "next", "finish", "returned", "raised", "handled"}
  /\ url \in Urls \cup {NoLink}
  /\ gets \in 0..1
  /\ page \in 0..(MaxItems + DB_RECORD_COUNT_DEFAULT)
  /\ inflight \subseteq 1..page
  /\ faults \in 0..MaxFaults
  /\ getFailed \in BOOLEAN
  /\ \A u \in Urls : link[u] \in Links \cup {Unknown}

\* pullLocations runs, one after the other, with the locations they
\* process; the scheduler task and the other flows do not run
LocationInit ==
  /\ Init
  /\ store = [t \in TxIds |-> Doc(TRUE, TRUE, TRUE, NoCdr)]
  /\ ClientIdle
  /\ LocationIdle
  /\ CommandIdle
  /\ StorageIdle
  /\ OverlapIdle

LocationSpec == LocationInit /\ [][LocationNext]_allvars

\* remote start and stop commands, one after the other
CommandInit ==
  /\ Init
  /\ store = [t \in TxIds |-> Doc(TRUE, TRUE, TRUE, NoCdr)]
  /\ ClientIdle
  /\ LocationIdle
  /\ CommandIdle
  /\ StorageIdle
  /\ OverlapIdle

CommandSpec == CommandInit /\ [][CommandNext]_allvars

\* two saveTransaction calls, the push of one CDR and the job that checks
\* the sessions, on one collection
StorageInit ==
  /\ Init
  /\ store = [t \in TxIds |-> Doc(TRUE, TRUE, TRUE, NoCdr)]
  /\ ClientIdle
  /\ LocationIdle
  /\ CommandIdle
  /\ OverlapIdle
  /\ transactions \in [TransactionIds -> StorageDocs]
  /\ saveCalls = [c \in Callers |-> NoCall]
  /\ pushStep = NoPush
  /\ query = NoQuery

StorageSpec == StorageInit /\ [][StorageNext]_allvars

\* getTransactions on a collection of any content
QueryInit ==
  /\ Init
  /\ store = [t \in TxIds |-> Doc(TRUE, TRUE, TRUE, NoCdr)]
  /\ ClientIdle
  /\ LocationIdle
  /\ CommandIdle
  /\ OverlapIdle
  /\ transactions \in [TransactionIds -> QueryDocs]
  /\ saveCalls = [c \in Callers |-> NoCall]
  /\ pushStep = NoPush
  /\ query = NoQuery

QuerySpec == QueryInit /\ [][QueryNext]_allvars

\* two overlapping pullLocations runs on empty stores
OverlapInit ==
  /\ Init
  /\ store = [t \in TxIds |-> Doc(TRUE, TRUE, TRUE, NoCdr)]
  /\ ClientIdle
  /\ LocationIdle
  /\ CommandIdle
  /\ StorageIdle
  /\ pulls = [r \in PullRuns |-> NoPull]

OverlapSpec == OverlapInit /\ [][OverlapNext]_allvars

(* ============================== claims ================================== *)

\* C1: for every transaction, over every sequence of processTenant runs, the
\* finalize operation (processTransactionRoaming with END) completes at most
\* once, whatever the outcome of the save that follows it.
\* Violated: a finalize that returned, followed by a save that raised, leaves
\* the stored cdr null and the next run finalizes the transaction again.
C1_FinalizeAtMostOnce == \A t \in TxIds : pushed[t] <= 1

\* C2: once the stored ocpiData.cdr of a transaction is non-null, no step
\* changes it, in every interleaving of the runs with each other and with the
\* other pusher that works under the per-transaction lock.
C2_CdrNeverOverwritten ==
  [][\A t \in TxIds : store[t].cdr # NoCdr => store'[t].cdr = store[t].cdr]_vars

\* a run holds the lock of a candidate whose CDR another process had stored
\* after the candidate query, and has left it as it was
C2_Witness ==
  \E p \in Tasks : /\ pc[p] = "releaseTx"
                   /\ obs[p].item.cdrSeen
                   /\ store[Cur(p)].cdr = ExtCdr

\* C3: at any time, for a given transaction, at most one process is between
\* a successful acquire of the transaction's push-CDR lock and its release,
\* so at most one finalize call for the transaction is in flight.
C3_AtMostOneInFlight ==
  \A t \in TxIds :
     Cardinality({p \in Tasks : InTxBody(p) /\ Cur(p) = t})
       + (IF txLock[t] = Ext THEN 1 ELSE 0) <= 1

\* a run is finalizing one transaction while the other code path holds the
\* lock of another transaction
C3_Witness ==
  \E p \in Tasks : /\ pc[p] = "finalize"
                   /\ txLock[Cur(p)] = Handle(p)
                   /\ \E u \in TxIds : txLock[u] = Ext

\* C4: for a candidate whose re-fetched transaction already has ocpiData.cdr
\* set, processTenant calls neither processTransactionRoaming nor
\* saveTransactionOcpiData: the iteration goes straight to the release.
C4_NoCallsWhenCdrPresent ==
  \A p \in Tasks :
     obs[p].item.cdrSeen =>
        /\ ~obs[p].item.fin
        /\ ~obs[p].item.sav
        /\ obs[p].item.msg = "cdr already pushed"
        /\ pc[p] \in {"releaseTx", "acquireTx", "releaseTenant"}

\* an iteration that found the CDR present is over, its lock released
C4_Witness ==
  \E p \in Tasks : /\ obs[p].item.cdrSeen
                   /\ obs[p].item.txRel = 1
                   /\ pc[p] = "acquireTx"

\* C5: of two runs that contend for the tenant-wide lock exactly one gets it:
\* at most one run is inside the locked region, that run holds the lock, and
\* a run that got no handle has queried no candidates and processed none.
C5_TenantLockExclusive ==
  /\ Cardinality({p \in Tasks : InTenantBody(p)}) <= 1
  /\ \A p \in Tasks :
        /\ (InTenantBody(p) /\ pc[p] # "releaseTenant") => tenantLock = Handle(p)
        /\ obs[p].tenantRes = "absent" =>
              /\ ~obs[p].queried
              /\ obs[p].item.tx = 0
              /\ ~InTenantBody(p)

\* one run is inside the locked region, the other asked for the lock
\* meanwhile and got no handle
C5_Witness ==
  \E p, q \in Tasks : /\ p # q
                      /\ InTenantBody(p)
                      /\ tenantLock = Handle(p)
                      /\ obs[q].tenantRes = "absent"

\* C6: when the tenant-wide lock is unavailable, processTenant ends without
\* raising, without querying storage, without requesting a per-transaction
\* lock, without a log entry and without calling release.
C6_SilentSkip ==
  \A p \in Tasks :
     obs[p].tenantRes = "absent" =>
        /\ pc[p] = "done"
        /\ ~obs[p].escaped
        /\ ~obs[p].queried
        /\ obs[p].item.txTry = 0
        /\ obs[p].logs = {}
        /\ obs[p].tenantRel = 0
        /\ ocpiLock[p] = None

\* a run has ended because the tenant-wide lock was held
C6_Witness ==
  \E p \in Tasks : /\ obs[p].tenantRes = "absent"
                   /\ pc[p] = "done"
                   /\ tenantLock # None

\* C7: when the per-transaction lock of a candidate is held by another
\* process, processTenant asks for it once, does not fetch, finalize or save
\* the transaction, raises nothing, and goes on to the next candidate.
C7_ContendedLockSkipped ==
  \A p \in Tasks :
     obs[p].item.lastAcq = "absent" =>
        /\ pc[p] \in {"acquireTx", "releaseTenant"}
        /\ ~exc[p]
        /\ obs[p].item.txTry = 1
        /\ obs[p].item.txAcq = 0
        /\ ~obs[p].item.fetched
        /\ ~obs[p].item.fin
        /\ ~obs[p].item.sav
        /\ obs[p].item.msg = "none"
        /\ idx[p] >= 2
        /\ cands[p][idx[p] - 1] = obs[p].item.tx

\* the lock of the first candidate is held by the other code path, the run
\* has skipped it and is about to request the lock of the next candidate
C7_Witness ==
  \E p \in Tasks : /\ obs[p].item.lastAcq = "absent"
                   /\ pc[p] = "acquireTx"
                   /\ idx[p] <= Len(cands[p])
                   /\ txLock[obs[p].item.tx] = Ext

\* C8: every per-transaction lock that processTenant acquires is released
\* exactly once, before the lock of the next candidate is requested, on every
\* path through the candidate body.
C8_TxLockReleasedOnce ==
  \A p \in Tasks :
     /\ InTxBody(p) =>
           /\ obs[p].item.txAcq = 1
           /\ obs[p].item.txRel = 0
           /\ ocpiTransactionLock[p] = Handle(p)
           /\ txLock[Cur(p)] = Handle(p)
     /\ pc[p] \in {"acquireTx", "releaseTenant"} =>
           /\ obs[p].item.txRel = obs[p].item.txAcq
           /\ ocpiTransactionLock[p] = None
           /\ ~exc[p] => \A t \in TxIds : txLock[t] # Handle(p)

\* the finalize of a candidate raised, its lock has been released once and
\* the run is about to request the lock of the next candidate
C8_Witness ==
  \E p \in Tasks : /\ pc[p] = "acquireTx"
                   /\ idx[p] <= Len(cands[p])
                   /\ obs[p].item.txAcq = 1
                   /\ obs[p].item.txRel = 1
                   /\ obs[p].item.fin
                   /\ ~obs[p].item.finOk

\* C9: every run that acquired the tenant-wide lock has called release on it
\* exactly once when the run ends (and never before), also when the candidate
\* query raises, when a per-transaction acquire or release raises, and when
\* there is no candidate; a release that returned has freed the lock.
C9_TenantLockReleasedOnce ==
  \A p \in Tasks :
     /\ InTenantBody(p) => obs[p].tenantRes = "ok" /\ obs[p].tenantRel = 0
     /\ pc[p] = "done" =>
           /\ obs[p].tenantRel = (IF obs[p].tenantRes = "ok" THEN 1 ELSE 0)
           /\ (obs[p].tenantRes = "ok" /\ ~obs[p].relFailed) => tenantLock # Handle(p)

\* a run in which an exception unwound out of the locked region has ended
\* with the tenant-wide lock released once
C9_Witness ==
  \E p \in Tasks : /\ pc[p] = "done"
                   /\ obs[p].tenantRes = "ok"
                   /\ obs[p].tenantRel = 1
                   /\ ~obs[p].relFailed
                   /\ RunErrorLogged(p)

Missed(p) == obs[p].item.msg \in {"transaction not found", "charging station not found", "tag not found"}

\* C11: for a candidate whose transaction, charging station or tag is not
\* found, processTenant calls neither processTransactionRoaming nor
\* saveTransactionOcpiData, logs the miss, and the miss does not end the loop:
\* nothing unwinds, the lock is released and, the release having returned, the
\* lock of the next candidate is requested.
C11_MissSkipsCandidateOnly ==
  \A p \in Tasks :
     Missed(p) =>
        /\ ~obs[p].item.fin
        /\ ~obs[p].item.sav
        /\ LogEntry("error", OCPI_PUSH_CDRS) \in obs[p].logs
        /\ pc[p] \in {"releaseTx", "acquireTx", "releaseTenant"}
        /\ pc[p] = "releaseTx" => ~exc[p] /\ Cur(p) = obs[p].item.tx
        /\ pc[p] = "acquireTx" => ~exc[p] /\ cands[p][idx[p] - 1] = obs[p].item.tx
        /\ (pc[p] = "releaseTenant" /\ ~exc[p]) => idx[p] = Len(cands[p]) + 1

\* the charging station of the first candidate was missing and the run is
\* about to request the lock of the next candidate
C11_Witness ==
  \E p \in Tasks : /\ obs[p].item.msg = "charging station not found"
                   /\ pc[p] = "acquireTx"
                   /\ idx[p] <= Len(cands[p])

\* C12: processTenant calls the finalize operation only for transactions
\* that had a stop, had ocpiData and had no ocpiData.cdr when the candidate
\* query was answered; an unfinished transaction or one without ocpiData is
\* never finalized.
C12_OnlyCandidatesFinalized ==
  \A p \in Tasks :
     (pc[p] = "finalize" \/ obs[p].item.fin) =>
        /\ obs[p].item.tx \in obs[p].eligible
        /\ store[obs[p].item.tx].stop
        /\ store[obs[p].item.tx].ocpi

\* a transaction is being finalized while the collection also holds a
\* transaction that is unfinished or has no ocpiData
C12_Witness ==
  \E p \in Tasks : /\ pc[p] = "save"
                   /\ obs[p].item.finOk
                   /\ \E u \in TxIds : store[u].exists /\ (~store[u].stop \/ ~store[u].ocpi)

\* C13: during a run the task holds at most one per-transaction lock at a
\* time, requests per-transaction locks only while it holds the tenant-wide
\* lock, and calls release on the tenant-wide lock only after the release of
\* the last per-transaction lock it acquired.
C13_LockNesting ==
  \A p \in Tasks :
     /\ Handle(p) # None => Cardinality({t \in TxIds : txLock[t] = Handle(p)}) <= 1
     /\ (pc[p] = "acquireTx" \/ InTxBody(p)) =>
           /\ tenantLock = Handle(p)
           /\ ocpiLock[p] = Handle(p)
           /\ obs[p].tenantRel = 0
     /\ pc[p] = "acquireTx" => \A t \in TxIds : txLock[t] # Handle(p)
     /\ pc[p] = "releaseTenant" =>
           /\ ocpiTransactionLock[p] = None
           /\ obs[p].item.txRel = obs[p].item.txAcq
     /\ obs[p].tenantRel > 0 => ~InTxBody(p) /\ ocpiTransactionLock[p] = None

\* the run has released the lock of its last candidate and is about to
\* release the tenant-wide lock, which it still holds
C13_Witness ==
  \E p \in Tasks : /\ pc[p] = "releaseTenant"
                   /\ obs[p].item.txAcq = 1
                   /\ obs[p].item.txRel = 1
                   /\ tenantLock = Handle(p)
                   /\ \A t \in TxIds : txLock[t] # Handle(p)

(* ------------------------- claims on the client flows ------------------- *)

\* the last element of a non-empty sequence
Last(s) == s[Len(s)]

\* the page loop of a pull flow is over
LoopOver == flow \in PullFlows /\ cpc \in {"finish", "returned"}

\* C14: the page loop of pullLocations, pullSessions and pullCdrs stops
\* after a response that has no next link or whose next link equals the URL
\* just fetched: on a chain P1 -> P2 -> P3 with no next link on P3 it fetches
\* exactly P1, P2, P3 in this order, and on P1 whose next link is P1 it
\* fetches P1 exactly once.
C14_StopsOnAbsentOrSameLink ==
  flow \in PullFlows =>
     /\ LoopOver => link[Last(fetched)] \in {NoLink, EmptyLink, Last(fetched)}
     /\ cpc = "get" /\ fetched # <<>> => link[Last(fetched)] \notin {NoLink, EmptyLink, Last(fetched)}
     /\ (link[1] = 2 /\ link[2] = 3 /\ link[3] = NoLink) =>
           /\ \A k \in 1..Len(fetched) : fetched[k] = k
           /\ LoopOver => fetched = <<1, 2, 3>>
     /\ link[1] = 1 => fetched = <<1>>

\* the chain P1 -> P2 -> P3 was fetched and the flow returned
C14_Witness ==
  /\ flow \in PullFlows
  /\ cpc = "returned"
  /\ link[1] = 2 /\ link[2] = 3 /\ link[3] = NoLink
  /\ fetched = <<1, 2, 3>>

\* C15: whatever next links the server's pages carry, the page loop fetches
\* no URL twice (it ends as soon as the next link repeats a URL already
\* fetched in the run).
C15_NoUrlFetchedTwice ==
  flow \in PullFlows =>
     \A i, j \in 1..Len(fetched) : i # j => fetched[i] # fetched[j]

\* C16: when a page GET fails, the flow issues no further GET (no retry),
\* processes no further item, and the failure propagates to the caller of
\* the flow.
C16_FailedGetEndsFlow ==
  [][ /\ getFailed' => /\ cpc' \in {"raised", "handled"}
                       /\ gets' = 0
                       /\ inflight' = {}
      /\ getFailed => /\ fetched' = fetched
                      /\ result' = result
                      /\ applied' = applied
                      /\ handed' = handed ]_allvars

\* the GET of the second page failed after items of the first page were
\* processed, and the flow has raised
C16_Witness ==
  /\ flow \in PullFlows
  /\ getFailed
  /\ cpc = "raised"
  /\ Len(fetched) = 2
  /\ result.success + result.failure > 0

C18_OnePageAtATime ==
  /\ gets <= 1
  /\ inflight # {} => gets = 0 /\ cpc = "map"
  /\ cpc \in {"get", "response", "getTokens", "next"} => inflight = {} /\ Waiting = {}
  /\ flow \in PullFlows =>
        /\ fetched # <<>> => fetched[1] = FirstUrl
        /\ \A k \in 1..(Len(fetched) - 1) : fetched[k + 1] = link[fetched[k]]

\* the GET of the second page is outstanding after a page of several items
C18_Witness ==
  /\ flow = "pullSessions"
  /\ cpc = "response"
  /\ gets = 1
  /\ Len(fetched) = 2
  /\ result.success + result.failure >= 2

\* the flows that hand the items of a page to Promise.map
MapFlows == {"pushTokens", "pullSessions", "pullCdrs"}

\* C19: at every moment of pushTokens, pullSessions and pullCdrs the number
\* of item workers in flight is at most Constants.OCPI_MAX_PARALLEL_REQUESTS,
\* and every item of a page is handed to the worker exactly once before the
\* page is done.
C19_BoundedWorkers ==
  flow \in MapFlows =>
     /\ Cardinality(inflight) <= OCPI_MAX_PARALLEL_REQUESTS
     /\ \A i \in 1..page : handed[i] <= 1
     /\ \A i \in inflight : handed[i] = 1
     /\ cpc = "next" => \A i \in 1..page : handed[i] = 1

\* as many workers as allowed are in flight and an item of the page waits
C19_Witness ==
  /\ flow = "pullCdrs"
  /\ Cardinality(inflight) = OCPI_MAX_PARALLEL_REQUESTS
  /\ Waiting # {}

\* the step that leaves the end of a page goes on with the next page if
\* there is one, and to the end of the flow otherwise
AfterPage ==
  IF flow = "pushTokens" THEN (IF page # 0 THEN "getTokens" ELSE "finish")
  ELSE (IF link[url] \notin {NoLink, EmptyLink, url} THEN "get" ELSE "finish")

\* what C20 says of one step of a flow
ItemFailureIsolated ==
  /\ result'.failure - result.failure \in {0, 1}
  /\ result'.logs - result.logs = result'.failure - result.failure
  /\ result'.failure > result.failure =>
        /\ result'.success = result.success
        /\ cpc' \in {"map", "next"}
        /\ \A i \in 1..page : handed'[i] >= handed[i]
        /\ cpc' = "next" => \A i \in 1..page : handed'[i] = 1
  /\ (cpc = "next" /\ result.failure > 0) => cpc' = AfterPage

\* C20: in pushTokens, pullSessions and pullCdrs a failure for one item is
\* recorded as one failure with one log line, never makes the flow raise,
\* and prevents neither the other items of the page nor the following pages
\* from being processed.
C20_ItemFailureIsolated ==
  [][(flow \in MapFlows) => ItemFailureIsolated]_allvars

\* an item of the first page failed, another item of that page succeeded
\* and the second page has been requested
C20_Witness ==
  /\ flow = "pullSessions"
  /\ cpc = "response"
  /\ Len(fetched) = 2
  /\ result.failure = 1
  /\ result.success >= 1

\* the elements of a sequence
Range(s) == {s[i] : i \in 1..Len(s)}

\* a sequence without a repeated element
NoDuplicates(s) == \A i, j \in 1..Len(s) : i # j => s[i] # s[j]

\* the counters of the result agree with what the run processed: N items
\* of which k failed
CountersAgree ==
  /\ result.failure = hist.itemFailures
  /\ result.success = hist.items - hist.itemFailures
  /\ result.total = hist.items

\* C21: when pushTokens, pullSessions or pullCdrs completes after
\* processing N items of which k failed, the returned result has
\* failure = k, success = N - k and total = N; during pushTokens,
\* success + failure <= total holds at every moment.
C21_CountersOfMapFlows ==
  /\ (flow \in MapFlows /\ cpc = "returned") => CountersAgree
  /\ flow = "pushTokens" => result.success + result.failure <= result.total

\* three tokens were pushed, only the PUT of the second one failed, and
\* pushTokens returned success 2, failure 1, total 3
C21_Witness ==
  /\ flow = "pushTokens"
  /\ cpc = "returned"
  /\ tokens = <<1, 2, 1>>
  /\ result.objectIDsInFailure = <<2>>
  /\ result.success = 2 /\ result.failure = 1 /\ result.total = 3

\* C22: when pullLocations completes after processing N locations of which
\* k failed, the returned result has failure = k, success = N - k and
\* total = N.
C22_CountersOfPullLocations ==
  (flow = "pullLocations" /\ cpc = "returned") => CountersAgree

\* C23: when pushTokens completes, it has saved the endpoint exactly once,
\* after the last token page, with successNbr, failureNbr and totalNbr equal
\* to the run's counters and tokenIDsInFailure holding each failing token
\* uid exactly once, even when the same uid failed several times.
C23_EndpointSavedOnce ==
  flow = "pushTokens" =>
     /\ hist.saves > 0 => cpc \in {"returned", "raised", "handled"} /\ inflight = {}
     /\ hist.saves <= 1
     /\ cpc = "returned" =>
           /\ hist.saves = 1
           /\ currentSkip >= Len(tokens)
           /\ endpoint.successNbr = hist.items - hist.itemFailures
           /\ endpoint.failureNbr = hist.itemFailures
           /\ endpoint.totalNbr = hist.items
           /\ Range(endpoint.tokenIDsInFailure) = hist.failedUids
           /\ NoDuplicates(endpoint.tokenIDsInFailure)

\* two tokens with the same uid failed and the endpoint was saved
C23_Witness ==
  /\ flow = "pushTokens"
  /\ cpc = "returned"
  /\ result.failure = 2
  /\ Cardinality(hist.failedUids) = 1
  /\ Len(endpoint.tokenIDsInFailure) = 1

\* C24: the failed-id collection of the result returned by pushTokens
\* contains exactly the distinct uids of the tokens whose push failed: no
\* uid appears twice, also when a token with the same uid is pushed and
\* fails more than once in the run.
C24_FailedIdsDistinct ==
  (flow = "pushTokens" /\ cpc = "returned") =>
     /\ Range(result.objectIDsInFailure) = hist.failedUids
     /\ NoDuplicates(result.objectIDsInFailure)

\* C27: in pullLocations, an error raised while processing one location is
\* counted as one failure of that location with one log line, every later
\* location of the page and of the following pages is still processed, and
\* pullLocations does not raise because of it.
C27_LocationFailureIsolated ==
  [][(flow = "pullLocations") => ItemFailureIsolated]_allvars

\* the first location of a page failed, a later one of the same page was
\* processed and the following page has been requested
C27_Witness ==
  /\ flow = "pullLocations"
  /\ cpc = "response"
  /\ Len(fetched) = 2
  /\ result.failure = 1
  /\ result.success >= 1
  /\ hist.items >= 2


(* ------------------- claims about processLocation ----------------------- *)

\* the current processLocation call has returned
LocationDone == lpc = "loop" /\ lhist.outcome = "ok"

\* C25: over every sequence of pullLocations runs that do not overlap and
\* every sequence of locations inside a run, the store holds at most one
\* Site per site name and at most one SiteArea per site and site area name
\* (site name, separator, location id); a Location payload that is processed
\* again finds the Site and the SiteArea of its first processing.
C25_OneSiteAndSiteAreaPerLocation ==
  /\ \A s1 \in sites : \A s2 \in sites : s1.name = s2.name => s1 = s2
  /\ \A a1 \in siteAreas : \A a2 \in siteAreas :
       (a1.siteID = a2.siteID /\ a1.name = a2.name) => a1 = a2
  /\ LocationDone =>
       /\ Cardinality({s \in sites : s.name = location.name}) = 1
       /\ \A s \in sites : s.name = location.name =>
            Cardinality({a \in siteAreas : a.siteID = s.id /\ a.name = LocationName(s, location)}) = 1

\* a location was processed for the second time, by the second call, and
\* it created neither a site nor a site area
C25_Witness ==
  /\ LocationDone
  /\ calls = 2
  /\ ~lhist.siteCreated
  /\ ~lhist.areaCreated
  /\ \E s \in sites : \E a \in siteAreas :
       s.name = location.name /\ a.siteID = s.id /\ a.name = LocationName(s, location)

\* the EVSE at position i of the current location was processed: its
\* charging station was handed to saveChargingStation, or looked up for removal
Processed(i) == lhist.saves[i] > 0 \/ lhist.found[i] # "none"

\* C26: when processLocation meets an EVSE without a uid and no storage
\* call fails, every EVSE of the location that has a uid, listed before or
\* after it, has been processed when the call is over.
\* Violated: the missing uid is thrown out of the for loop, so the EVSEs
\* listed after it are never reached.
C26_MissingUidFailsOnlyItself ==
  (lpc = "loop" /\ lhist.outcome = "failed" /\ ~lhist.storageFault)
    => \A i \in DOMAIN location.evses : location.evses[i].hasUid => Processed(i)

\* the loop of the current call is past the EVSE at position i
Past(i) == LocationDone \/ (lpc \in {"evse", "getStation", "delete", "saveStation", "saveOcpiData"} /\ evseIdx > i)

\* C28: an EVSE with status REMOVED never has its charging station saved;
\* when the lookup found a local station for (location id, EVSE uid),
\* exactly one deleteChargingStation call is made for it, and when the
\* lookup found none, no delete is made.
C28_RemovedEvseDeletesOnly ==
  \A i \in DOMAIN location.evses :
    (location.evses[i].hasUid /\ location.evses[i].status = "REMOVED") =>
      /\ lhist.saves[i] = 0
      /\ lhist.deletes[i] <= 1
      /\ lhist.found[i] # "yes" => lhist.deletes[i] = 0
      /\ (lhist.found[i] = "yes" /\ Past(i)) => lhist.deletes[i] = 1

\* a location was processed to its end and one of its REMOVED EVSEs had a
\* local station, which is deleted by one call and gone from the store
C28_Witness ==
  /\ LocationDone
  /\ \E i \in DOMAIN location.evses :
       /\ location.evses[i].status = "REMOVED"
       /\ lhist.found[i] = "yes"
       /\ lhist.deletes[i] = 1
       /\ lhist.saves[i] = 0
       /\ StationOf(location.id, i) = {}

\* C29: the charging station processLocation has just saved carries the
\* company id of the site's company, the id of the resolved Site and the
\* id of the resolved SiteArea, whether the SiteArea existed or was created
\* by this call.
\* Violated: a SiteArea created by this call is the object built in
\* processLocation, which has no `site`, so siteArea.site?.companyID is
\* undefined and the station is saved without a company id.
C29_StationCarriesIds ==
  lpc = "saveOcpiData" =>
    \A st \in StationOf(location.id, evseIdx) :
      /\ st.companyID = CompanyId
      /\ st.siteID = site.id
      /\ st.siteAreaID = siteArea.id

(* --------------------- claims about the commands ------------------------ *)

\* C30: remoteStartSession and remoteStopSession send their POST only when
\* the validation passes.  A stop whose transaction does not exist, is not
\* issued locally or has no OCPI session, and a start whose tag is missing,
\* not issuer or inactive, or whose user is missing or not issuer, sends
\* nothing and raises a BackendError.
C30_PostOnlyWhenValid ==
  /\ (command = "stop" /\ rpc \in {"post", "returned", "raised"} /\ raisedError # "storage") =>
       IF stopTransaction.exists /\ stopTransaction.issuer /\ stopTransaction.session
       THEN raisedError # "BackendError"
       ELSE rpc = "raised" /\ raisedError = "BackendError" /\ posts = 0
  /\ (command = "start" /\ rpc \in {"post", "returned", "raised"} /\ raisedError # "storage") =>
       IF tag.exists /\ tag.issuer /\ tag.active /\ tag.user = "local"
       THEN raisedError # "BackendError"
       ELSE rpc = "raised" /\ raisedError = "BackendError" /\ posts = 0
  /\ posts > 0 => \/ command = "stop" /\ stopTransaction.exists /\ stopTransaction.issuer /\ stopTransaction.session
                  \/ command = "start" /\ tag.exists /\ tag.issuer /\ tag.active /\ tag.user = "local"
  /\ raisedError = "storage" => posts = 0

\* a start with an inactive tag of a local user was refused without a POST,
\* after an earlier command
C30_Witness ==
  /\ command = "start"
  /\ rpc = "raised"
  /\ raisedError = "BackendError"
  /\ tag.exists /\ tag.issuer /\ ~tag.active /\ tag.user = "local"
  /\ posts = 0
  /\ commands > 1


(* ----------------- claims about processTenant, continued ---------------- *)

\* C31: for every candidate, saveTransactionOcpiData is called only after
\* processTransactionRoaming returned without raising for that candidate in
\* the same run; both calls are made while the run holds the tenant-wide
\* lock and the lock of that transaction; when the finalize raised, nothing
\* is saved for the transaction.
C31_SaveAfterFinalizeUnderLocks ==
  \A p \in Tasks :
    /\ pc[p] \in {"finalize", "save"} =>
         /\ ocpiLock[p] = Handle(p) /\ tenantLock = Handle(p)
         /\ ocpiTransactionLock[p] = Handle(p) /\ txLock[Cur(p)] = Handle(p)
         /\ obs[p].item.tx = Cur(p)
    /\ pc[p] = "save" => obs[p].item.finOk
    /\ obs[p].item.sav => obs[p].item.finOk
    /\ (obs[p].item.fin /\ ~obs[p].item.finOk) => ~obs[p].item.sav /\ pc[p] # "save"

\* a candidate was finalized and then saved
C31_Witness ==
  \E p \in Tasks :
    /\ pc[p] = "releaseTx"
    /\ obs[p].item.finOk
    /\ obs[p].item.sav
    /\ obs[p].item.msg = "pushed successfully"

\* the run has left the candidate loop before its last candidate
EndedEarly(p) == pc[p] = "releaseTenant" /\ idx[p] <= Len(cands[p])

\* C32: an error raised by the re-fetch, the charging station or tag
\* lookup, the finalize or the save of a candidate is caught inside the
\* candidate loop: the run goes on to the release of the candidate's lock
\* and from there to the next candidate.  The loop is left before its last
\* candidate only when an acquire or a release of the lock manager raised.
C32_CandidateErrorsCaught ==
  \A p \in Tasks :
    /\ EndedEarly(p) =>
         /\ exc[p]
         /\ obs[p].item.lastAcq = "raise" \/ obs[p].item.txRel > 0
    /\ obs[p].item.msg = "failed to push" =>
         \/ pc[p] = "releaseTx" /\ ~exc[p]
         \/ /\ pc[p] = "acquireTx" /\ ~exc[p]
            /\ idx[p] > 1 /\ cands[p][idx[p] - 1] = obs[p].item.tx
         \/ pc[p] = "releaseTenant" /\ obs[p].item.txRel > 0

\* the first of two candidates failed, its lock was released and the
\* second candidate is about to be attempted
C32_Witness ==
  \E p \in Tasks :
    /\ pc[p] = "acquireTx"
    /\ idx[p] = 2
    /\ Len(cands[p]) >= 2
    /\ obs[p].item.msg = "failed to push"

\* C38: saveTransactionOcpiData changes only the ocpiData of the
\* transaction with the given id and creates no document: no step makes a
\* deleted transaction exist again, and the save step of a run leaves the
\* existence and the stop of every document, and every other document, as
\* they were.
C38_SaveChangesOcpiDataOnly ==
  [][ \A t \in TxIds :
        /\ ~store[t].exists => ~store'[t].exists
        /\ \A p \in Tasks :
             (pc[p] = "save" /\ pc'[p] = "releaseTx") =>
               /\ store'[t].exists = store[t].exists
               /\ store'[t].stop = store[t].stop
               /\ t # local[p].id => store'[t] = store[t] ]_allvars

\* a run saved the ocpiData of a transaction that was deleted after the
\* re-fetch: the save returned and the store holds no such transaction
C38_Witness ==
  \E p \in Tasks :
    /\ pc[p] = "releaseTx"
    /\ obs[p].item.msg = "pushed successfully"
    /\ ~store[obs[p].item.tx].exists

\* C40: every log entry written by processTenant, the entry for an
\* exception that escapes the run included, carries the action
\* ServerAction.OCPI_PUSH_CDRS.
\* Violated: the catch of the whole run logs with ServerAction.OCPI_PULL_CDRS.
C40_AllLogsPushCdrs ==
  \A p \in Tasks : \A entry \in obs[p].logs : entry.action = OCPI_PUSH_CDRS


\* C33: when every call a run awaits returns, the run terminates; and a
\* candidate that was re-fetched, found with its charging station and tag,
\* finalized and saved has its ocpiData stored with the CDR the finalize
\* attached, and no later step of any run takes that CDR away, so that it
\* is stored when the run ends.
C33_RunTerminatesAndStores ==
  /\ \A p \in Tasks : (pc[p] \notin {"idle", "done"}) ~> (pc[p] = "done")
  /\ [](\A p \in Tasks :
          (obs[p].item.msg = "pushed successfully" /\ store[obs[p].item.tx].exists) =>
             /\ store[obs[p].item.tx].ocpi
             /\ store[obs[p].item.tx].cdr = NewCdr(p))
  /\ [][\A t \in TxIds :
          store[t].cdr # NoCdr => store'[t].cdr = store[t].cdr]_allvars

\* a run that queried its candidates has ended and the CDR it attached to
\* a transaction is stored
C33_Witness ==
  \E p \in Tasks : \E t \in TxIds :
    /\ pc[p] = "done"
    /\ obs[p].queried
    /\ store[t].exists
    /\ store[t].cdr = NewCdr(p)


(* --------------------- claims about pushTokens, continued --------------- *)

\* the page of tokens getTokens returns for a skip is empty
EmptyPage(skip) == Len(tokens) <= skip

\* C34: pushTokens reads the tokens in pages of DB_RECORD_COUNT_DEFAULT: the
\* first call of getTokens has skip 0 and each later call has the skip of
\* the call before it plus DB_RECORD_COUNT_DEFAULT; the loop is left at the
\* first empty page; and, the collection staying as it is during the run,
\* every token is handed to the push exactly once.
C34_TokensPagedOnce ==
  flow = "pushTokens" =>
    /\ \A i \in 1..Len(fetched) : fetched[i] = (i - 1) * DB_RECORD_COUNT_DEFAULT
    /\ \A i \in 1..(Len(fetched) - 1) : ~EmptyPage(fetched[i])
    /\ \A i \in 1..Len(handed) : handed[i] <= 1
    /\ cpc = "next" => \A i \in 1..page : handed[i] = 1
    /\ cpc \in {"finish", "returned"} =>
         /\ Len(fetched) > 0
         /\ EmptyPage(fetched[Len(fetched)])
         /\ hist.items = Len(tokens)
         /\ result.total = Len(tokens)
         /\ result.success + result.failure = Len(tokens)

\* a run over more tokens than one page holds has returned after a full
\* page, a shorter page and the empty page
C34_Witness ==
  /\ flow = "pushTokens"
  /\ cpc = "returned"
  /\ Len(tokens) > DB_RECORD_COUNT_DEFAULT
  /\ Len(fetched) >= 3


(* --------------------- claims about TransactionStorage ------------------ *)

\* C35: the save of the push task keeps a change to the ocpiData of the
\* transaction that another process stored after the task's re-fetch: the
\* save step sets the CDR and leaves session, sessionCheckedOn and
\* cdrCheckedOn as they are stored at the time of the save.
\* Violated: $set: { ocpiData } stores the copy the task re-fetched, so a
\* sessionCheckedOn stored in between is gone after the save.
C35_SaveKeepsOtherChanges ==
  [][(pushStep.pc = "save" /\ pushStep'.pc = "saved" /\ transactions[pushStep.id].exists) =>
       /\ transactions'[pushStep.id].ocpiData.cdr = pushStep.ocpiData.cdr
       /\ transactions'[pushStep.id].ocpiData.session = transactions[pushStep.id].ocpiData.session
       /\ transactions'[pushStep.id].ocpiData.sessionCheckedOn = transactions[pushStep.id].ocpiData.sessionCheckedOn
       /\ transactions'[pushStep.id].ocpiData.cdrCheckedOn = transactions[pushStep.id].ocpiData.cdrCheckedOn
    ]_allvars

\* C37: two concurrent saveTransaction calls for new transactions are not
\* stored under the same id: when both have returned their ids differ and
\* each id holds the document of its call.
\* Violated: both calls get the same free id from findAvailableID and the
\* second findOneAndReplace replaces the document of the first.
C37_NewTransactionsKeepApart ==
  \A c1 \in Callers : \A c2 \in Callers \ {c1} :
    (saveCalls[c1].pc = "saved" /\ saveCalls[c2].pc = "saved") =>
      /\ saveCalls[c1].id # saveCalls[c2].id
      /\ transactions[saveCalls[c1].id].owner = c1

\* C39: getTransactions called with both dates of a pair returns only
\* transactions whose field is within both bounds, for the session and the
\* CDR last_updated as for the timestamp.
\* Violated: for ocpiSessionDateFrom/To and ocpiCdrDateFrom/To the filter
\* of the upper bound replaces the filter of the lower bound.
C39_BothBoundsApplied ==
  (query.kind \in QueryKinds /\ query.from # NoDate /\ query.to # NoDate) =>
    \A id \in query.result :
      /\ FieldOf(query.kind, transactions[id]) >= query.from
      /\ FieldOf(query.kind, transactions[id]) <= query.to

(* ------------------ claims about overlapping pullLocations -------------- *)

\* C36: two pullLocations runs whose executions overlap create neither two
\* Sites with the same name nor two SiteAreas with the same name under one
\* Site.
\* Violated: both runs read their working set before either has saved the
\* Site; each finds no Site of the name and saves one.
C36_NoDuplicateSiteOrArea ==
  /\ \A s1 \in sites : \A s2 \in sites : s1.name = s2.name => s1 = s2
  /\ \A a1 \in siteAreas : \A a2 \in siteAreas :
       (a1.siteID = a2.siteID /\ a1.name = a2.name) => a1 = a2

====
